---- MODULE Spec2Model ----
(***************************************************************************)
(* A model of reddit_decider: the request-scoped Decider client, its       *)
(* DeciderContext snapshot, the parsing of the engine's raw exposure       *)
(* events and the calls made to the event logger.                          *)
(*                                                                         *)
(* The decision engine (rust_decider), the event logger and the file       *)
(* watcher are collaborators: their answers are inputs, drawn from small   *)
(* pools.  A call of a public method of Decider is one action.             *)
(***************************************************************************)
EXTENDS Integers, Sequences, FiniteSets, TLC

VARIABLES
    decider_context,   \* Decider._decider_context: the DeciderContext fields
    internal,          \* Decider._internal: the engine handle given at construction
    logger_fail_at,    \* event logger: the number of the log call (per operation) that raises, 0 = none
    op,                \* the Decider method whose call has just ended ("idle": none)
    args,              \* its arguments
    engine_result,     \* what the engine answered in that call
    result,            \* the value the method returned (NoneVal when it raised)
    outcome,           \* "returned", or the name of the exception that reached the caller
    log_calls,         \* the calls the method made to event_logger.log, in order
    engine_calls,      \* the calls the method made to the engine handle, in order
    diagnostics,       \* the lines the method wrote to logging / warnings, in order
    total_logged,      \* event_logger.log.call_count over all operations so far
    n_ops,             \* number of operations performed so far
    watcher_handle,    \* DeciderContextFactory._filewatcher: the handle get_data() returns now
    aliased,           \* the snapshot's objects that a dict built in the last call shares with it
    extracted_dict,    \* the dict object the request_field_extractor returned
    prune_log          \* the calls of _prune_extracted_dict so far: input, result, diagnostics

vars == <<decider_context, internal, logger_fail_at, op, args, engine_result, result,
          outcome, log_calls, engine_calls, diagnostics, total_logged, n_ops,
          watcher_handle, aliased, extracted_dict, prune_log>>

----------------------------------------------------------------------------
(* Bounds *)

MaxEvents == 2      \* longest list of raw events in one decision
MaxOps == 2         \* method calls per behaviour
MaxEntries == 3     \* most entries of an extracted-fields dict
MaxDecisions == 2   \* experiments in one choose_all answer (at most Len(BulkNames))

----------------------------------------------------------------------------
(* Python values *)

NoneVal == "<None>"          \* Python None
SEP == "::::"                \* the field delimiter of a raw event

Truthy(v) == v \notin {NoneVal, ""}

EmptyDict == << >>

\* dict.get(k) with None as the default
DictGet(d, k) == IF k \in DOMAIN d THEN d[k] ELSE NoneVal

\* a merge that keeps a's value where both have the key
Merge_LeftWins(a, b) == [k \in (DOMAIN a) \cup (DOMAIN b) |-> IF k \in DOMAIN a THEN a[k] ELSE b[k]]

\* {**a, **b}: the keys of both, b's value where both have the key
Merge(a, b) == [k \in (DOMAIN a) \cup (DOMAIN b) |-> IF k \in DOMAIN b THEN b[k] ELSE a[k]]

\* a dict with the single key k
Single(k, v) == [x \in {k} |-> v]

EMPLOYEE_ROLES == {"employee", "contractor"}
\* the whitelist with the tests' bogus type let through
IDENTIFIERS_WithBlah == {"user_id", "device_id", "canonical_url", "blah"}

IDENTIFIERS == {"user_id", "device_id", "canonical_url"}

EXPOSE == "expose"           \* EventType.EXPOSE

----------------------------------------------------------------------------
(* DeciderContext *)

\* extracted_fields = None and extracted_fields = {} are both read through
\* `self._extracted_fields or {}`; both are the empty dict here.
to_dict(dc) ==
    LET ef == dc.extracted_fields
    IN  Merge([user_id |-> dc.user_id,
               country_code |-> dc.country_code,
               locale |-> dc.locale,
               user_is_employee |-> dc.user_is_employee,
               logged_in |-> dc.logged_in,
               device_id |-> dc.device_id,
               oauth_client_id |-> dc.oauth_client_id,
               origin_service |-> dc.origin_service,
               cookie_created_timestamp |-> dc.cookie_created_timestamp,
               loid_created_timestamp |-> dc.loid_created_timestamp,
               other_fields |-> ef],
              ef)

to_event_dict(dc) ==
    LET ef == dc.extracted_fields
        user_fields == [id |-> dc.user_id,
                        logged_in |-> dc.logged_in,
                        cookie_created_timestamp |-> dc.cookie_created_timestamp,
                        is_employee |-> dc.user_is_employee]
        app_name  == IF Truthy(DictGet(ef, "app_name"))
                        THEN Single("name", ef["app_name"]) ELSE EmptyDict
        app_ver   == IF Truthy(DictGet(ef, "app_version"))
                        THEN Single("version", ef["app_version"]) ELSE EmptyDict
        app_build == IF Truthy(DictGet(ef, "build_number"))
                        THEN Single("build_number", ef["build_number"]) ELSE EmptyDict
        app_loc   == IF Truthy(dc.locale)
                        THEN Single("relevant_locale", dc.locale) ELSE EmptyDict
        app_fields == Merge(Merge(Merge(app_name, app_ver), app_build), app_loc)
        geo_fields == IF Truthy(dc.country_code)
                         THEN Single("country_code", dc.country_code) ELSE EmptyDict
        request_fields == IF Truthy(DictGet(ef, "canonical_url"))
                             THEN Single("canonical_url", ef["canonical_url"]) ELSE EmptyDict
        platform_fields == IF Truthy(dc.device_id)
                              THEN Single("device_id", dc.device_id) ELSE EmptyDict
    IN  Merge([user_id |-> dc.user_id,
               country_code |-> dc.country_code,
               locale |-> dc.locale,
               user_is_employee |-> dc.user_is_employee,
               logged_in |-> dc.logged_in,
               device_id |-> dc.device_id,
               origin_service |-> dc.origin_service,
               cookie_created_timestamp |-> dc.cookie_created_timestamp,
               user |-> user_fields,
               app |-> app_fields,
               geo |-> geo_fields,
               request |-> request_fields,
               platform |-> platform_fields],
              ef)

\* The mutable object a snapshot holds; its other attributes are str, bool
\* and int values.
SnapshotObjects == {"_extracted_fields"}

\* a copy that shares the copied objects with its argument
deepcopy_refs_Shallow(objs) == objs

\* the objects that copy.deepcopy's result shares with its argument: none
deepcopy_refs(objs) == {}

\* to_dict and to_event_dict build a new dict from the attributes and from
\* ef = deepcopy(self._extracted_fields or {}); every dict a method returns,
\* emits or sends to the engine is built from one of the two
ViewRefs == deepcopy_refs(SnapshotObjects)

\* The snapshots a request can produce: the full one of the tests' fixture
\* and DeciderContext() with every field None.
FullContext ==
    [user_id |-> "t2_1234", country_code |-> "US", locale |-> "us_en",
     user_is_employee |-> "True", logged_in |-> "True", device_id |-> "abc",
     oauth_client_id |-> "token", origin_service |-> "origin",
     cookie_created_timestamp |-> "1234", loid_created_timestamp |-> "5678",
     extracted_fields |-> [app_name |-> "ios", canonical_url |-> "www.test.com"]]

MinimalContext ==
    [user_id |-> NoneVal, country_code |-> NoneVal, locale |-> NoneVal,
     user_is_employee |-> NoneVal, logged_in |-> NoneVal, device_id |-> NoneVal,
     oauth_client_id |-> NoneVal, origin_service |-> NoneVal,
     cookie_created_timestamp |-> NoneVal, loid_created_timestamp |-> NoneVal,
     extracted_fields |-> EmptyDict]

ContextPool == {FullContext, MinimalContext}

\* the fixture's snapshot with extracted fields named like core attributes
ShadowedContext ==
    [FullContext EXCEPT !.extracted_fields =
        [app_name |-> "ios", user_id |-> "t2_ef", device_id |-> "dev_ef"]]

SnapshotPool == ContextPool \cup {ShadowedContext}

----------------------------------------------------------------------------
(* Raw decision events *)

\* A raw event is the string the engine returns; it is held as its sequence
\* of tokens, the delimiter "::::" being a token of its own, so that split
\* has the field count to compute.  Between two delimiters the pool has at
\* most one token; no token between them is the empty field "".
RECURSIVE SplitFrom(_, _, _, _)
SplitFrom(ev, i, cur, acc) ==
    IF i > Len(ev) THEN Append(acc, cur)
    ELSE IF ev[i] = SEP THEN SplitFrom(ev, i + 1, "", Append(acc, cur))
    ELSE SplitFrom(ev, i + 1, ev[i], acc)

\* event.split("::::")
Split(ev) == SplitFrom(ev, 1, "", << >>)

\* the 10-name tuple the split is unpacked into; any other count is a ValueError
EventFieldCount == 10

\* int(s) succeeds on these strings of the pools
IntLiterals == [s \in {"0", "1", "2", "5", "100", "200"} |->
                  CASE s = "0" -> 0
                    [] s = "1" -> 1
                    [] s = "2" -> 2
                    [] s = "5" -> 5
                    [] s = "100" -> 100
                    [] s = "200" -> 200]

\* _cast_to_int with 0 as the value of a failed cast
cast_to_int_Zero(input) == IF input \in DOMAIN IntLiterals THEN IntLiterals[input] ELSE 0

cast_to_int(input) == IF input \in DOMAIN IntLiterals THEN IntLiterals[input] ELSE 1

ExperimentConfig(id, version, name, bucket_val, start_ts, stop_ts, owner) ==
    [id |-> id, version |-> version, name |-> name, bucket_val |-> bucket_val,
     start_ts |-> start_ts, stop_ts |-> stop_ts, owner |-> owner]

\* "::::".join(fields), the encoding the engine writes
RECURSIVE JoinFrom(_, _)
JoinFrom(fields, i) ==
    IF i > Len(fields) THEN << >>
    ELSE IF i = Len(fields) THEN << fields[i] >>
    ELSE << fields[i], SEP >> \o JoinFrom(fields, i + 1)

Join(fields) == JoinFrom(fields, 1)

\* event_type 0, regular bucketing of exp_1 on user_id
RegularEvent ==
    Join(<< "0", "1", "exp_1", "2", "variant_4", "t2_9999", "user_id",
            "100", "200", "test_owner" >>)

\* event_type 1, an override of exp_1, bucketed on canonical_url
OverrideEvent ==
    Join(<< "1", "1", "exp_1", "2", "control_1", "www.x.com", "canonical_url",
            "100", "200", "test_owner" >>)

\* event_type 2, the parent holdout group hg
HoldoutEvent ==
    Join(<< "2", "2", "hg", "5", "holdout", "t2_9999", "user_id",
            "0", "200", "test" >>)

\* a holdout event that lost its last three fields
MalformedEvent ==
    Join(<< "2", "2", "hg", "5", "holdout", "t2_9999", "user_id" >>)

\* a ten-field event whose id and timestamps are not integer literals
UncastableEvent ==
    Join(<< "0", "x7", "exp_1", "2", "variant_4", "t2_9999", "user_id",
            "soon", "1.5", "test_owner" >>)

EventPool == {RegularEvent, OverrideEvent, HoldoutEvent, MalformedEvent,
              UncastableEvent}

EventLists == UNION {[1..n -> EventPool] : n \in 0..MaxEvents}

----------------------------------------------------------------------------
(* The event logger *)

SPAN == "server_span"        \* Decider._span

\* the parameters event_logger.log is called with by name
LogKeywords == {"experiment", "variant", "span", "event_type", "inputs"}

\* self._event_logger.log(experiment=..., variant=..., span=self._span,
\*     event_type=EventType.EXPOSE, inputs=event_fields, **event_fields)
\* n is the number of log calls the operation made before this one.  The
\* answer is the call as the logger receives it and the exception of the
\* call: a key of event_fields that repeats a named parameter is a
\* TypeError before the logger is entered; the logger itself raises on its
\* logger_fail_at-th call.
log(experiment, variant, event_fields, n) ==
    IF (DOMAIN event_fields) \cap LogKeywords # {}
    THEN [calls |-> << >>, exc |-> "TypeError"]
    ELSE [calls |-> << [experiment |-> experiment, variant |-> variant, span |-> SPAN,
                        event_type |-> EXPOSE, inputs |-> event_fields,
                        kwargs |-> event_fields] >>,
          exc |-> IF n + 1 = logger_fail_at THEN "LoggerError" ELSE NoneVal]

NoEmission == [calls |-> << >>, exc |-> NoneVal, diag |-> << >>]

SplitWarning == << "warning", "event.split" >>

\* send_expose that leaves the context's own value under the bucketing field
send_expose_NoOverwrite(event, exposure_fields, overwrite_identifier, n) ==
    LET f == Split(event)
    IN  IF Len(f) # EventFieldCount
        THEN [NoEmission EXCEPT !.diag = << SplitWarning >>]
        ELSE LET experiment == ExperimentConfig(cast_to_int(f[2]), f[4], f[3], f[7],
                                                cast_to_int(f[8]), cast_to_int(f[9]), f[10])
                 sent == log(experiment, f[5], exposure_fields, n)
             IN  [calls |-> sent.calls, exc |-> sent.exc, diag |-> << >>]

\* send_expose with the event_type test of send_expose_if_holdout
send_expose_HoldoutOnly(event, exposure_fields, overwrite_identifier, n) ==
    LET f == Split(event)
    IN  IF Len(f) # EventFieldCount
        THEN [NoEmission EXCEPT !.diag = << SplitWarning >>]
        ELSE IF f[1] = "2"
        THEN LET experiment == ExperimentConfig(cast_to_int(f[2]), f[4], f[3], f[7],
                                                cast_to_int(f[8]), cast_to_int(f[9]), f[10])
                 event_fields == IF overwrite_identifier
                                    THEN Merge(exposure_fields, Single(f[7], f[6]))
                                    ELSE exposure_fields
                 sent == log(experiment, f[5], event_fields, n)
             IN  [calls |-> sent.calls, exc |-> sent.exc, diag |-> << >>]
        ELSE NoEmission

\* send_expose that carries the substitution of user_id into the nested user group
send_expose_NestedToo(event, exposure_fields, overwrite_identifier, n) ==
    LET f == Split(event)
    IN  IF Len(f) # EventFieldCount
        THEN [NoEmission EXCEPT !.diag = << SplitWarning >>]
        ELSE LET experiment == ExperimentConfig(cast_to_int(f[2]), f[4], f[3], f[7],
                                                cast_to_int(f[8]), cast_to_int(f[9]), f[10])
                 top == Merge(exposure_fields, Single(f[7], f[6]))
                 event_fields == IF ~overwrite_identifier THEN exposure_fields
                                 ELSE IF f[7] = "user_id" /\ "user" \in DOMAIN top
                                 THEN [top EXCEPT !["user"] = [@ EXCEPT !.id = f[6]]]
                                 ELSE top
                 sent == log(experiment, f[5], event_fields, n)
             IN  [calls |-> sent.calls, exc |-> sent.exc, diag |-> << >>]

send_expose(event, exposure_fields, overwrite_identifier, n) ==
    LET f == Split(event)
    IN  IF Len(f) # EventFieldCount
        THEN [NoEmission EXCEPT !.diag = << SplitWarning >>]
        ELSE LET experiment == ExperimentConfig(cast_to_int(f[2]), f[4], f[3], f[7],
                                                cast_to_int(f[8]), cast_to_int(f[9]), f[10])
                 event_fields == IF overwrite_identifier
                                    THEN Merge(exposure_fields, Single(f[7], f[6]))
                                    ELSE exposure_fields
                 sent == log(experiment, f[5], event_fields, n)
             IN  [calls |-> sent.calls, exc |-> sent.exc, diag |-> << >>]

\* send_expose_if_holdout without its event_type test
send_expose_if_holdout_AnyType(event, exposure_fields, overwrite_identifier, n) ==
    LET f == Split(event)
    IN  IF Len(f) # EventFieldCount
        THEN [NoEmission EXCEPT !.diag = << SplitWarning >>]
        ELSE LET experiment == ExperimentConfig(cast_to_int(f[2]), f[4], f[3], f[7],
                                                cast_to_int(f[8]), cast_to_int(f[9]), f[10])
                 event_fields == IF overwrite_identifier
                                    THEN Merge(exposure_fields, Single(f[7], f[6]))
                                    ELSE exposure_fields
                 sent == log(experiment, f[5], event_fields, n)
             IN  [calls |-> sent.calls, exc |-> sent.exc, diag |-> << >>]

\* send_expose_if_holdout that names the experiment and variant asked for
\* by the caller's record (the event's own name and variant are dropped)
send_expose_if_holdout_ChildFields(event, exposure_fields, overwrite_identifier, n) ==
    LET f == Split(event)
    IN  IF Len(f) # EventFieldCount
        THEN [NoEmission EXCEPT !.diag = << SplitWarning >>]
        ELSE IF f[1] = "2"
        THEN LET experiment == ExperimentConfig(1, "2", "exp_1", f[7],
                                                cast_to_int(f[8]), cast_to_int(f[9]), f[10])
                 event_fields == IF overwrite_identifier
                                    THEN Merge(exposure_fields, Single(f[7], f[6]))
                                    ELSE exposure_fields
                 sent == log(experiment, NoneVal, event_fields, n)
             IN  [calls |-> sent.calls, exc |-> sent.exc, diag |-> << >>]
        ELSE NoEmission

send_expose_if_holdout(event, exposure_fields, overwrite_identifier, n) ==
    LET f == Split(event)
    IN  IF Len(f) # EventFieldCount
        THEN [NoEmission EXCEPT !.diag = << SplitWarning >>]
        ELSE IF f[1] = "2"
        THEN LET experiment == ExperimentConfig(cast_to_int(f[2]), f[4], f[3], f[7],
                                                cast_to_int(f[8]), cast_to_int(f[9]), f[10])
                 event_fields == IF overwrite_identifier
                                    THEN Merge(exposure_fields, Single(f[7], f[6]))
                                    ELSE exposure_fields
                 sent == log(experiment, f[5], event_fields, n)
             IN  [calls |-> sent.calls, exc |-> sent.exc, diag |-> << >>]
        ELSE NoEmission

RECURSIVE ExposeLoop(_, _, _, _, _, _)

\* the loop left at the first event that does not parse
ExposeLoop_StopsAtMalformed(events, i, exposure_fields, overwrite_identifier, holdout_only, acc) ==
    IF i > Len(events) \/ acc.exc # NoneVal THEN acc
    ELSE IF Len(Split(events[i])) # EventFieldCount
    THEN [acc EXCEPT !.diag = Append(@, SplitWarning)]
    ELSE LET one == IF holdout_only
                       THEN send_expose_if_holdout(events[i], exposure_fields,
                                                   overwrite_identifier, Len(acc.calls))
                       ELSE send_expose(events[i], exposure_fields,
                                        overwrite_identifier, Len(acc.calls))
         IN  ExposeLoop(events, i + 1, exposure_fields, overwrite_identifier, holdout_only,
                        [calls |-> acc.calls \o one.calls, exc |-> one.exc,
                         diag |-> acc.diag \o one.diag])

\* `for event in events: self._send_expose...(event, ...)`: the events in
\* order, left by the first exception.  holdout_only selects the sender.
ExposeLoop(events, i, exposure_fields, overwrite_identifier, holdout_only, acc) ==
    IF i > Len(events) \/ acc.exc # NoneVal THEN acc
    ELSE LET one == IF holdout_only
                       THEN send_expose_if_holdout(events[i], exposure_fields,
                                                   overwrite_identifier, Len(acc.calls))
                       ELSE send_expose(events[i], exposure_fields,
                                        overwrite_identifier, Len(acc.calls))
         IN  ExposeLoop(events, i + 1, exposure_fields, overwrite_identifier, holdout_only,
                        [calls |-> acc.calls \o one.calls, exc |-> one.exc,
                         diag |-> acc.diag \o one.diag])

----------------------------------------------------------------------------
(* The decision engine (rust_decider), a collaborator *)

Variants == {NoneVal, "variant_4"}

\* What choose answers: a decision (variant, events), "feature not found",
\* or another engine error.  The engine may have gathered the parent
\* holdout's event before it found the error.
NoAnswer ==
    [status |-> "not_called", variant |-> NoneVal, events |-> << >>, val |-> NoneVal,
     decisions |-> << >>]

ChooseAnswers ==
    {[status |-> "ok", variant |-> v, events |-> es] : v \in Variants, es \in EventLists}
    \cup {[status |-> "not_found", variant |-> NoneVal, events |-> << >>]}
    \cup {[status |-> "error", variant |-> NoneVal, events |-> es] :
             es \in {<< >>, << HoldoutEvent >>}}

\* rust_decider.make_ctx answers a context whose err() is None or a message;
\* with a message the engine is not asked for a decision
CtxError == [status |-> "ctx_err", variant |-> NoneVal, events |-> << >>]

ContextAnswers == {CtxError} \cup ChooseAnswers

\* ctx.err()
CtxErr(answer) == IF answer.status = "ctx_err" THEN "make_ctx failed" ELSE NoneVal

\* What get_experiment answers: an error (the feature is not found), no
\* error and no value, or the experiment's dict.
Exp1Dict ==
    [id |-> "1", name |-> "exp_1", version |-> "2", owner |-> "test_owner",
     emit_event |-> "True",
     variant_set |-> [bucket_val |-> "user_id", start_ts |-> "100", stop_ts |-> "200"]]

\* an experiment whose config turns exposure events off
RolloutDict ==
    [id |-> "5", name |-> "rollout", version |-> "1", owner |-> "test",
     emit_event |-> "False",
     variant_set |-> [bucket_val |-> "device_id", start_ts |-> "0", stop_ts |-> "200"]]

\* a dict with a name only
BareDict == [name |-> "hg"]

ExperimentDicts == {Exp1Dict, RolloutDict, BareDict}

LookupAnswers ==
    {[status |-> "found", val |-> d] : d \in ExperimentDicts}
    \cup {[status |-> "error", val |-> EmptyDict], [status |-> "null", val |-> EmptyDict]}

\* What a typed getter answers after make_ctx: None, an error (the config
\* is not found, its value has another type, anything else), or the value.
ConfigValues(decider_func) ==
    CASE decider_func = "get_bool" -> {"True", "False"}
      [] decider_func = "get_int" -> {"7", "0"}
      [] decider_func = "get_float" -> {"4.2", "0.0"}
      [] decider_func = "get_string" -> {"helloworld!", ""}
      [] decider_func = "get_map" -> {"{'key': 'value'}", "{}"}

ConfigAnswers(decider_func) ==
    {[status |-> st, val |-> NoneVal] :
        st \in {"ctx_err", "null", "not_found", "type_mismatch", "error"}}
    \cup {[status |-> "ok", val |-> v] : v \in ConfigValues(decider_func)}

\* the default argument of a typed accessor: its own default or the caller's
Defaults(decider_func) ==
    CASE decider_func = "get_bool" -> {"False", "True"}
      [] decider_func = "get_int" -> {"0", "3"}
      [] decider_func = "get_float" -> {"0.0", "1.5"}
      [] decider_func = "get_string" -> {"", "fallback"}
      [] decider_func = "get_map" -> {NoneVal, "{'d': 'v'}"}

\* What choose_all answers: an error, or one decision per experiment, in the
\* order of the items of the engine's dict.  A decision is an error (the
\* experiment is bucketed on another field), or the decision's dict (empty
\* when no variant is assigned) and its events.
BulkDecision(name, err, decision_dict, events) ==
    [name |-> name, err |-> err, decision_dict |-> decision_dict, events |-> events]

VariantDict(name, variant) ==
    [id |-> "1", name |-> variant, version |-> "2", experimentName |-> name]

DecisionsFor(name) ==
    {BulkDecision(name, "incompatible bucket_val", EmptyDict, << >>),
     BulkDecision(name, "incompatible bucket_val", EmptyDict, << HoldoutEvent >>),
     BulkDecision(name, NoneVal, VariantDict(name, "variant_4"), << RegularEvent >>),
     BulkDecision(name, NoneVal, VariantDict(name, "control_1"), << HoldoutEvent, OverrideEvent >>),
     BulkDecision(name, NoneVal, EmptyDict, << HoldoutEvent >>),
     BulkDecision(name, NoneVal, EmptyDict, << MalformedEvent >>)}

BulkNames == << "exp_1", "e1", "e2", "e3" >>

BulkDecisionLists ==
    UNION {{ds \in [1..n -> UNION {DecisionsFor(BulkNames[k]) : k \in 1..n}] :
              \A k \in 1..n : ds[k].name = BulkNames[k]} : n \in 0..MaxDecisions}

BulkAnswers ==
    {[status |-> "ok", decisions |-> ds] : ds \in BulkDecisionLists}
    \cup {[status |-> st, decisions |-> << >>] : st \in {"ctx_err", "error"}}

\* a call made on the handle the file watcher holds at the time of the call
EngineCall_AsksWatcher(method, feature_name, ctx, identifier_type) ==
    [method |-> method, feature_name |-> feature_name, ctx |-> ctx,
     identifier_type |-> identifier_type, handle |-> watcher_handle]

\* a call of the engine and the handle it is made on: self._internal
EngineCall(method, feature_name, ctx, identifier_type) ==
    [method |-> method, feature_name |-> feature_name, ctx |-> ctx,
     identifier_type |-> identifier_type, handle |-> internal]

----------------------------------------------------------------------------
(* Decider *)

ExperimentNames == {"exp_1"}

\* the identifier and identifier_type arguments; "blah" is the tests' bogus type
IdentifierPool == {"t2_9999", "www.x.com"}
IdentifierTypePool == IDENTIFIERS \cup {"blah"}


\* the variant_name argument of expose
VariantNames == {"variant_4", "", NoneVal}

ConfigNames == {"dc_1"}

\* **exposure_kwargs of the caller
KwargsPool == {EmptyDict, [subreddit_id |-> "t5_1", user_id |-> "t2_kw"]}

\* what a method did: its return value, the exception that left it (NoneVal:
\* it returned), and its calls to the logger, to the engine and to logging
Done(value, exc, calls, ecalls, diag) ==
    [result |-> value, outcome |-> IF exc = NoneVal THEN "returned" ELSE exc,
     log_calls |-> calls, engine_calls |-> ecalls, diagnostics |-> diag]

NoLoop == [calls |-> << >>, exc |-> NoneVal, diag |-> << >>]

\* get_variant with a single except clause for both kinds of engine error
get_variant_OneSignal(experiment_name, exposure_kwargs, answer) ==
    IF internal = "None"
    THEN Done(NoneVal, NoneVal, << >>, << >>, << << "error", "RustDecider is None" >> >>)
    ELSE LET ctx == to_dict(decider_context)
             ecalls == << EngineCall("choose", experiment_name, ctx, NoneVal) >>
         IN  IF answer.status # "ok"
             THEN Done(NoneVal, NoneVal, << >>, ecalls, << << "info", "DeciderException" >> >>)
             ELSE LET event_context_fields == Merge(to_event_dict(decider_context), exposure_kwargs)
                      sent == ExposeLoop(answer.events, 1, event_context_fields, FALSE, FALSE, NoLoop)
                  IN  IF sent.exc # NoneVal
                      THEN Done(NoneVal, sent.exc, sent.calls, ecalls, sent.diag)
                      ELSE Done(answer.variant, NoneVal, sent.calls, ecalls, sent.diag)

get_variant(experiment_name, exposure_kwargs, answer) ==
    IF internal = "None"
    THEN Done(NoneVal, NoneVal, << >>, << >>, << << "error", "RustDecider is None" >> >>)
    ELSE LET ctx == to_dict(decider_context)
             ecalls == << EngineCall("choose", experiment_name, ctx, NoneVal) >>
         IN  IF answer.status = "not_found"
             THEN Done(NoneVal, NoneVal, << >>, ecalls, << << "warn", "FeatureNotFoundException" >> >>)
             ELSE IF answer.status # "ok"
             THEN Done(NoneVal, NoneVal, << >>, ecalls, << << "info", "DeciderException" >> >>)
             ELSE LET event_context_fields == Merge(to_event_dict(decider_context), exposure_kwargs)
                      sent == ExposeLoop(answer.events, 1, event_context_fields, FALSE, FALSE, NoLoop)
                  IN  IF sent.exc # NoneVal
                      THEN Done(NoneVal, sent.exc, sent.calls, ecalls, sent.diag)
                      ELSE Done(answer.variant, NoneVal, sent.calls, ecalls, sent.diag)

get_variant_without_expose(experiment_name, answer) ==
    IF internal = "None"
    THEN Done(NoneVal, NoneVal, << >>, << >>, << << "error", "RustDecider is None" >> >>)
    ELSE LET ctx == to_dict(decider_context)
             ecalls == << EngineCall("choose", experiment_name, ctx, NoneVal) >>
         IN  IF answer.status = "not_found"
             THEN Done(NoneVal, NoneVal, << >>, ecalls, << << "warn", "FeatureNotFoundException" >> >>)
             ELSE IF answer.status # "ok"
             THEN Done(NoneVal, NoneVal, << >>, ecalls, << << "info", "DeciderException" >> >>)
             ELSE LET event_context_fields == to_event_dict(decider_context)
                      sent == ExposeLoop(answer.events, 1, event_context_fields, FALSE, TRUE, NoLoop)
                  IN  IF sent.exc # NoneVal
                      THEN Done(NoneVal, sent.exc, sent.calls, ecalls, sent.diag)
                      ELSE Done(answer.variant, NoneVal, sent.calls, ecalls, sent.diag)

\* Decider._get_decider
get_decider == IF internal # "None" THEN "decider" ELSE NoneVal

\* Decider._get_ctx_with_set_identifier: the fields handed to make_ctx
get_ctx_with_set_identifier(identifier, identifier_type) ==
    Merge(to_dict(decider_context), Single(identifier_type, identifier))

UnsupportedIdentifier == << "warning", "not one of supported identifier_type" >>

get_variant_for_identifier(experiment_name, identifier, identifier_type, exposure_kwargs, answer) ==
    IF identifier_type \notin IDENTIFIERS
    THEN Done(NoneVal, NoneVal, << >>, << >>, << UnsupportedIdentifier >>)
    ELSE IF get_decider = NoneVal
    THEN Done(NoneVal, NoneVal, << >>, << >>, << >>)
    ELSE LET ctx == get_ctx_with_set_identifier(identifier, identifier_type)
             made == << EngineCall("get_decider", NoneVal, EmptyDict, NoneVal),
                        EngineCall("make_ctx", NoneVal, ctx, NoneVal) >>
             ecalls == Append(made, EngineCall("choose", experiment_name, ctx, identifier_type))
         IN  IF CtxErr(answer) # NoneVal
             THEN Done(NoneVal, NoneVal, << >>, made, << << "info", "make_ctx" >> >>)
             ELSE IF answer.status # "ok"
             THEN Done(NoneVal, NoneVal, << >>, ecalls, << << "info", "decider.choose" >> >>)
             ELSE LET event_context_fields == Merge(to_event_dict(decider_context), exposure_kwargs)
                      sent == ExposeLoop(answer.events, 1, event_context_fields, TRUE, FALSE, NoLoop)
                  IN  IF sent.exc # NoneVal
                      THEN Done(NoneVal, sent.exc, sent.calls, ecalls, sent.diag)
                      ELSE Done(answer.variant, NoneVal, sent.calls, ecalls, sent.diag)

\* get_variant_for_identifier_without_expose that does not look at choice.err()
get_variant_for_identifier_without_expose_IgnoresErr(experiment_name, identifier, identifier_type, answer) ==
    IF identifier_type \notin IDENTIFIERS
    THEN Done(NoneVal, NoneVal, << >>, << >>, << UnsupportedIdentifier >>)
    ELSE IF get_decider = NoneVal
    THEN Done(NoneVal, NoneVal, << >>, << >>, << >>)
    ELSE LET ctx == get_ctx_with_set_identifier(identifier, identifier_type)
             made == << EngineCall("get_decider", NoneVal, EmptyDict, NoneVal),
                        EngineCall("make_ctx", NoneVal, ctx, NoneVal) >>
             ecalls == Append(made, EngineCall("choose", experiment_name, ctx, identifier_type))
         IN  IF CtxErr(answer) # NoneVal
             THEN Done(NoneVal, NoneVal, << >>, made, << << "info", "make_ctx" >> >>)
             ELSE LET event_context_fields == to_event_dict(decider_context)
                      sent == ExposeLoop(answer.events, 1, event_context_fields, TRUE, TRUE, NoLoop)
                  IN  IF sent.exc # NoneVal
                      THEN Done(NoneVal, sent.exc, sent.calls, ecalls, sent.diag)
                      ELSE Done(answer.variant, NoneVal, sent.calls, ecalls, sent.diag)

get_variant_for_identifier_without_expose(experiment_name, identifier, identifier_type, answer) ==
    IF identifier_type \notin IDENTIFIERS
    THEN Done(NoneVal, NoneVal, << >>, << >>, << UnsupportedIdentifier >>)
    ELSE IF get_decider = NoneVal
    THEN Done(NoneVal, NoneVal, << >>, << >>, << >>)
    ELSE LET ctx == get_ctx_with_set_identifier(identifier, identifier_type)
             made == << EngineCall("get_decider", NoneVal, EmptyDict, NoneVal),
                        EngineCall("make_ctx", NoneVal, ctx, NoneVal) >>
             ecalls == Append(made, EngineCall("choose", experiment_name, ctx, identifier_type))
         IN  IF CtxErr(answer) # NoneVal
             THEN Done(NoneVal, NoneVal, << >>, made, << << "info", "make_ctx" >> >>)
             ELSE IF answer.status # "ok"
             THEN Done(NoneVal, NoneVal, << >>, ecalls, << << "info", "decider.choose" >> >>)
             ELSE LET event_context_fields == to_event_dict(decider_context)
                      sent == ExposeLoop(answer.events, 1, event_context_fields, TRUE, TRUE, NoLoop)
                  IN  IF sent.exc # NoneVal
                      THEN Done(NoneVal, sent.exc, sent.calls, ecalls, sent.diag)
                      ELSE Done(answer.variant, NoneVal, sent.calls, ecalls, sent.diag)

\* Decider._format_decision: the id cast to int where int() accepts it
format_decision(decision_dict) ==
    [k \in DOMAIN decision_dict |->
        IF k = "id" /\ decision_dict[k] \in DOMAIN IntLiterals
           THEN IntLiterals[decision_dict[k]]
           ELSE decision_dict[k]]

RECURSIVE DecisionsLoop(_, _, _, _)

\* the loop without its test of decision.err(): a failing experiment's
\* events are handed to the sender like any other's
DecisionsLoop_ExposesFailing(decisions, i, event_context_fields, acc) ==
    IF i > Len(decisions) \/ acc.exc # NoneVal THEN acc
    ELSE LET decision == decisions[i]
             sent == ExposeLoop(decision.events, 1, event_context_fields, TRUE, TRUE,
                                [calls |-> acc.calls, exc |-> NoneVal, diag |-> acc.diag])
             parsed == IF decision.decision_dict # EmptyDict
                          THEN Append(acc.parsed, format_decision(decision.decision_dict))
                          ELSE acc.parsed
         IN  DecisionsLoop(decisions, i + 1, event_context_fields,
                 [parsed |-> parsed, calls |-> sent.calls, exc |-> sent.exc,
                  diag |-> sent.diag])

\* the loop of get_all_variants_for_identifier_without_expose over
\* all_decisions.items(), left by the first exception
DecisionsLoop(decisions, i, event_context_fields, acc) ==
    IF i > Len(decisions) \/ acc.exc # NoneVal THEN acc
    ELSE LET decision == decisions[i]
         IN  IF decision.err # NoneVal
             THEN DecisionsLoop(decisions, i + 1, event_context_fields,
                      [acc EXCEPT !.diag = Append(@, << "info", decision.name >>)])
             ELSE LET sent == ExposeLoop(decision.events, 1, event_context_fields, TRUE, TRUE,
                                         [calls |-> acc.calls, exc |-> NoneVal, diag |-> acc.diag])
                      parsed == IF decision.decision_dict # EmptyDict
                                   THEN Append(acc.parsed, format_decision(decision.decision_dict))
                                   ELSE acc.parsed
                  IN  DecisionsLoop(decisions, i + 1, event_context_fields,
                          [parsed |-> parsed, calls |-> sent.calls, exc |-> sent.exc,
                           diag |-> sent.diag])

get_all_variants_for_identifier_without_expose(identifier, identifier_type, answer) ==
    IF identifier_type \notin IDENTIFIERS
    THEN Done(<< >>, NoneVal, << >>, << >>, << UnsupportedIdentifier >>)
    ELSE IF get_decider = NoneVal
    THEN Done(<< >>, NoneVal, << >>, << >>, << >>)
    ELSE LET ctx == get_ctx_with_set_identifier(identifier, identifier_type)
             made == << EngineCall("get_decider", NoneVal, EmptyDict, NoneVal),
                        EngineCall("make_ctx", NoneVal, ctx, NoneVal) >>
             ecalls == Append(made, EngineCall("choose_all", NoneVal, ctx, identifier_type))
         IN  IF CtxErr(answer) # NoneVal
             THEN Done(<< >>, NoneVal, << >>, made, << << "info", "make_ctx" >> >>)
             ELSE IF answer.status # "ok"
             THEN Done(<< >>, NoneVal, << >>, ecalls, << << "info", "decider.choose_all" >> >>)
             ELSE LET event_context_fields == to_event_dict(decider_context)
                      looped == DecisionsLoop(answer.decisions, 1, event_context_fields,
                                    [parsed |-> << >>, calls |-> << >>, exc |-> NoneVal,
                                     diag |-> << >>])
                  IN  IF looped.exc # NoneVal
                      THEN Done(NoneVal, looped.exc, looped.calls, ecalls, looped.diag)
                      ELSE Done(looped.parsed, NoneVal, looped.calls, ecalls, looped.diag)

\* str(v) of a string or None
Str(v) == IF v = NoneVal THEN "None" ELSE v

\* expose that does not look at experiment.err()
expose_IgnoresErr(experiment_name, variant_name, exposure_kwargs, lookup) ==
    IF get_decider = NoneVal
    THEN Done(NoneVal, NoneVal, << >>, << >>, << >>)
    ELSE LET ecalls == << EngineCall("get_decider", NoneVal, EmptyDict, NoneVal),
                          EngineCall("get_experiment", experiment_name, EmptyDict, NoneVal) >>
             event_fields == Merge(to_event_dict(decider_context), exposure_kwargs)
             exp_dict == lookup.val
             variant_set == IF "variant_set" \in DOMAIN exp_dict
                               THEN exp_dict["variant_set"] ELSE EmptyDict
             experiment ==
                 ExperimentConfig(
                     IF "id" \in DOMAIN exp_dict THEN IntLiterals[exp_dict["id"]] ELSE 0,
                     Str(DictGet(exp_dict, "version")),
                     DictGet(exp_dict, "name"),
                     DictGet(variant_set, "bucket_val"),
                     DictGet(variant_set, "start_ts"),
                     DictGet(variant_set, "stop_ts"),
                     DictGet(exp_dict, "owner"))
             sent == log(experiment, variant_name, event_fields, 0)
         IN  Done(NoneVal, sent.exc, sent.calls, ecalls, << >>)

\* Decider.expose; lookup is what decider.get_experiment answered
expose(experiment_name, variant_name, exposure_kwargs, lookup) ==
    IF get_decider = NoneVal
    THEN Done(NoneVal, NoneVal, << >>, << >>, << >>)
    ELSE LET ecalls == << EngineCall("get_decider", NoneVal, EmptyDict, NoneVal),
                          EngineCall("get_experiment", experiment_name, EmptyDict, NoneVal) >>
         IN  IF lookup.status = "error"
             THEN Done(NoneVal, NoneVal, << >>, ecalls, << << "warning", "decider.get_experiment" >> >>)
             ELSE IF lookup.status = "null"
             THEN Done(NoneVal, "AttributeError", << >>, ecalls, << >>)
             ELSE LET event_fields == Merge(to_event_dict(decider_context), exposure_kwargs)
                      exp_dict == lookup.val
                      variant_set == IF "variant_set" \in DOMAIN exp_dict
                                        THEN exp_dict["variant_set"] ELSE EmptyDict
                  IN  IF "id" \in DOMAIN exp_dict /\ exp_dict["id"] \notin DOMAIN IntLiterals
                      THEN Done(NoneVal, "ValueError", << >>, ecalls, << >>)
                      ELSE LET experiment ==
                                   ExperimentConfig(
                                       IF "id" \in DOMAIN exp_dict
                                          THEN IntLiterals[exp_dict["id"]] ELSE 0,
                                       Str(DictGet(exp_dict, "version")),
                                       DictGet(exp_dict, "name"),
                                       DictGet(variant_set, "bucket_val"),
                                       DictGet(variant_set, "start_ts"),
                                       DictGet(variant_set, "stop_ts"),
                                       DictGet(exp_dict, "owner"))
                               sent == log(experiment, variant_name, event_fields, 0)
                           IN  Done(NoneVal, sent.exc, sent.calls, ecalls, << >>)

\* Decider._get_ctx: the fields handed to make_ctx
get_ctx == to_dict(decider_context)

\* Decider._get_dynamic_config_value; decider_func is the name of the
\* engine's typed getter, answer what make_ctx and the getter answered
get_dynamic_config_value(feature_name, decider_func, default, answer) ==
    LET ctx == get_ctx
        made == << EngineCall("get_decider", NoneVal, EmptyDict, NoneVal),
                   EngineCall("make_ctx", NoneVal, ctx, NoneVal) >>
        ecalls == Append(made, EngineCall(decider_func, feature_name, ctx, NoneVal))
    IN  IF CtxErr(answer) # NoneVal
        THEN Done(NoneVal, NoneVal, << >>, made, << << "info", "make_ctx" >> >>)
        ELSE IF answer.status = "null"
        THEN Done(default, NoneVal, << >>, ecalls, << >>)
        ELSE IF answer.status # "ok"
        THEN Done(default, NoneVal, << >>, ecalls, << << "warning", decider_func >> >>)
        ELSE Done(answer.val, NoneVal, << >>, ecalls, << >>)

\* get_bool, get_int, get_float, get_string and get_map differ in the
\* engine getter they hand over
get_typed(decider_func, feature_name, default, answer) ==
    IF get_decider = NoneVal
    THEN Done(default, NoneVal, << >>, << >>, << >>)
    ELSE get_dynamic_config_value(feature_name, decider_func, default, answer)

get_bool(feature_name, default, answer) == get_typed("get_bool", feature_name, default, answer)

get_int(feature_name, default, answer) == get_typed("get_int", feature_name, default, answer)

get_float(feature_name, default, answer) == get_typed("get_float", feature_name, default, answer)

get_string(feature_name, default, answer) == get_typed("get_string", feature_name, default, answer)

get_map(feature_name, default, answer) == get_typed("get_map", feature_name, default, answer)

\* Decider.get_experiment; lookup is what decider.get_experiment answered
get_experiment(experiment_name, lookup) ==
    IF get_decider = NoneVal
    THEN Done(NoneVal, NoneVal, << >>, << >>, << >>)
    ELSE LET ecalls == << EngineCall("get_decider", NoneVal, EmptyDict, NoneVal),
                          EngineCall("get_experiment", experiment_name, EmptyDict, NoneVal) >>
             exp_dict == lookup.val
             variant_set == IF "variant_set" \in DOMAIN exp_dict
                               THEN exp_dict["variant_set"] ELSE EmptyDict
         IN  IF lookup.status = "error"
             THEN Done(NoneVal, NoneVal, << >>, ecalls, << << "debug", "get_experiment" >> >>)
             ELSE IF lookup.status = "null"
             THEN Done(NoneVal, NoneVal, << >>, ecalls, << >>)
             ELSE Done(ExperimentConfig(
                           IF "id" \in DOMAIN exp_dict THEN IntLiterals[exp_dict["id"]] ELSE 0,
                           Str(DictGet(exp_dict, "version")),
                           DictGet(exp_dict, "name"),
                           DictGet(variant_set, "bucket_val"),
                           DictGet(variant_set, "start_ts"),
                           DictGet(variant_set, "stop_ts"),
                           DictGet(exp_dict, "owner")),
                       NoneVal, << >>, ecalls, << >>)

\* What get_all_values answers: an error, or one decision per dynamic
\* config, in the order of the items of the engine's dict.  A decision is
\* an error, or its value_dict {name, type, value} (possibly empty).
ConfigDecision(name, err, value_dict) == [name |-> name, err |-> err, value_dict |-> value_dict]

ValueDict(name) == [name |-> name, type |-> "float", value |-> "1.0"]

ConfigDecisionsFor(name) ==
    {ConfigDecision(name, "failed to parse", EmptyDict),
     ConfigDecision(name, NoneVal, ValueDict(name)),
     ConfigDecision(name, NoneVal, EmptyDict)}

ConfigBulkNames == << "dc_1", "dc_2", "dc_3", "dc_4" >>

ConfigDecisionLists ==
    UNION {{ds \in [1..n -> UNION {ConfigDecisionsFor(ConfigBulkNames[k]) : k \in 1..n}] :
              \A k \in 1..n : ds[k].name = ConfigBulkNames[k]} : n \in 0..MaxDecisions}

AllValuesAnswers ==
    {[status |-> "ok", decisions |-> ds] : ds \in ConfigDecisionLists}
    \cup {[status |-> st, decisions |-> << >>] : st \in {"ctx_err", "error"}}

\* the loop of get_all_dynamic_configs over all_decisions.items()
RECURSIVE ConfigsLoop(_, _, _)
ConfigsLoop(decisions, i, acc) ==
    IF i > Len(decisions) THEN acc
    ELSE LET decision == decisions[i]
         IN  IF decision.err # NoneVal
             THEN ConfigsLoop(decisions, i + 1,
                      [acc EXCEPT !.diag = Append(@, << "info", decision.name >>)])
             ELSE IF decision.value_dict # EmptyDict
             THEN ConfigsLoop(decisions, i + 1,
                      [acc EXCEPT !.parsed = Append(@, decision.value_dict)])
             ELSE ConfigsLoop(decisions, i + 1, acc)

get_all_dynamic_configs(answer) ==
    IF get_decider = NoneVal
    THEN Done(<< >>, NoneVal, << >>, << >>, << >>)
    ELSE LET ctx == get_ctx
             made == << EngineCall("get_decider", NoneVal, EmptyDict, NoneVal),
                        EngineCall("make_ctx", NoneVal, ctx, NoneVal) >>
             ecalls == Append(made, EngineCall("get_all_values", NoneVal, ctx, NoneVal))
         IN  IF CtxErr(answer) # NoneVal
             THEN Done(<< >>, NoneVal, << >>, made, << << "info", "make_ctx" >> >>)
             ELSE IF answer.status # "ok"
             THEN Done(<< >>, NoneVal, << >>, ecalls, << << "info", "decider.choose_all" >> >>)
             ELSE LET looped == ConfigsLoop(answer.decisions, 1,
                                            [parsed |-> << >>, diag |-> << >>])
                  IN  Done(looped.parsed, NoneVal, << >>, ecalls, looped.diag)

\* the attributes Decider.__init__ sets on the object
Attributes == {"_decider_context", "_internal", "_span", "_context_name", "_event_logger"}

\* What self._rs_decider.choose_all(ctx) answers: a ValueError, or a list of
\* decision dicts, empty for an experiment that is not decided.
LegacyDecision(name, variant, events) ==
    [variant |-> variant, experiment_id |-> "1", experiment_version |-> "2",
     experiment_name |-> name, events |-> events]

LegacyDecisionLists ==
    {<< >>, << LegacyDecision("exp_1", "variant_4", << RegularEvent >>) >>,
     << LegacyDecision("exp_1", NoneVal, << HoldoutEvent >>), EmptyDict >>}

LegacyAnswers ==
    {[status |-> "ok", decisions |-> ds] : ds \in LegacyDecisionLists}
    \cup {[status |-> "error", decisions |-> << >>]}

\* Decider._transform_decision
transform_decision(decision_dict) ==
    [name |-> DictGet(decision_dict, "variant"),
     id |-> DictGet(decision_dict, "experiment_id"),
     version |-> Str(DictGet(decision_dict, "experiment_version")),
     experimentName |-> DictGet(decision_dict, "experiment_name")]

\* the loop of get_all_variants_without_expose over all_decisions, left by the
\* first exception
RECURSIVE LegacyLoop(_, _, _, _)
LegacyLoop(decisions, i, event_context_fields, acc) ==
    IF i > Len(decisions) \/ acc.exc # NoneVal THEN acc
    ELSE LET decision_dict == decisions[i]
         IN  IF decision_dict = EmptyDict
             THEN LegacyLoop(decisions, i + 1, event_context_fields, acc)
             ELSE LET parsed == IF Truthy(DictGet(decision_dict, "variant"))
                                   THEN Append(acc.parsed, transform_decision(decision_dict))
                                   ELSE acc.parsed
                      events == IF "events" \in DOMAIN decision_dict
                                   THEN decision_dict["events"] ELSE << >>
                      sent == ExposeLoop(events, 1, event_context_fields, FALSE, TRUE,
                                         [calls |-> acc.calls, exc |-> NoneVal, diag |-> acc.diag])
                  IN  LegacyLoop(decisions, i + 1, event_context_fields,
                          [parsed |-> parsed, calls |-> sent.calls, exc |-> sent.exc,
                           diag |-> sent.diag])

\* Decider.get_all_variants_without_expose.  It reads self._rs_decider, which
\* no code of the class assigns: the read of a missing attribute raises
\* AttributeError before anything else is done.
get_all_variants_without_expose(answer) ==
    IF "_rs_decider" \notin Attributes
    THEN Done(NoneVal, "AttributeError", << >>, << >>, << >>)
    ELSE IF internal = "None"
    THEN Done(<< >>, NoneVal, << >>, << >>, << << "error", "rs_decider is None" >> >>)
    ELSE LET ctx == to_dict(decider_context)
             ecalls == << EngineCall("choose_all", NoneVal, ctx, NoneVal) >>
         IN  IF answer.status # "ok"
             THEN Done(<< >>, NoneVal, << >>, ecalls, << << "info", "ValueError" >> >>)
             ELSE LET event_context_fields == to_event_dict(decider_context)
                      looped == LegacyLoop(answer.decisions, 1, event_context_fields,
                                    [parsed |-> << >>, calls |-> << >>, exc |-> NoneVal,
                                     diag |-> << >>])
                  IN  IF looped.exc # NoneVal
                      THEN Done(NoneVal, looped.exc, looped.calls, ecalls, looped.diag)
                      ELSE Done(looped.parsed, NoneVal, looped.calls, ecalls, looped.diag)

----------------------------------------------------------------------------
(* The state machine *)

NoArgs == [experiment_name |-> NoneVal]

\* The Decider as its constructor leaves it.  The event logger of this
\* specification answers every call.
InitDecider ==
    /\ decider_context \in ContextPool
    /\ internal \in {"None", "Handle"}
    /\ op = "idle"
    /\ args = NoArgs
    /\ engine_result = NoAnswer
    /\ result = NoneVal
    /\ outcome = "returned"
    /\ log_calls = << >>
    /\ engine_calls = << >>
    /\ diagnostics = << >>
    /\ total_logged = 0
    /\ n_ops = 0
    /\ watcher_handle = internal
    /\ aliased = {}
    /\ extracted_dict = << >>
    /\ prune_log = << >>

Init ==
    /\ InitDecider
    /\ logger_fail_at = 0

\* a method can be called: the last call has ended
Ready == op = "idle" /\ n_ops < MaxOps

\* a Decider that emits only while the logger has not been called yet
Call_EmitsOnce(name, a, answer, done) ==
    LET d == done
        calls == IF total_logged > 0 THEN << >> ELSE d.log_calls
    IN  /\ op' = name
        /\ args' = a
        /\ engine_result' = answer
        /\ result' = d.result
        /\ outcome' = d.outcome
        /\ log_calls' = calls
        /\ engine_calls' = d.engine_calls
        /\ diagnostics' = d.diagnostics
        /\ total_logged' = total_logged + Len(calls)
        /\ n_ops' = n_ops + 1
        /\ aliased' = ViewRefs
        /\ UNCHANGED <<decider_context, internal, logger_fail_at, watcher_handle,
                       extracted_dict, prune_log>>

\* one call of a method: done is what the method did
Call(name, a, answer, done) ==
    LET d == done
    IN  /\ op' = name
        /\ args' = a
        /\ engine_result' = answer
        /\ result' = d.result
        /\ outcome' = d.outcome
        /\ log_calls' = d.log_calls
        /\ engine_calls' = d.engine_calls
        /\ diagnostics' = d.diagnostics
        /\ total_logged' = total_logged + Len(d.log_calls)
        /\ n_ops' = n_ops + 1
        /\ aliased' = ViewRefs
        /\ UNCHANGED <<decider_context, internal, logger_fail_at, watcher_handle,
                       extracted_dict, prune_log>>

\* The caller has taken the result.  A Decider keeps nothing of a call: what
\* stays is the logger's call count.
Return ==
    /\ op # "idle"
    /\ op' = "idle"
    /\ args' = NoArgs
    /\ engine_result' = NoAnswer
    /\ result' = NoneVal
    /\ outcome' = "returned"
    /\ log_calls' = << >>
    /\ engine_calls' = << >>
    /\ diagnostics' = << >>
    /\ aliased' = {}
    /\ UNCHANGED <<decider_context, internal, logger_fail_at, total_logged, n_ops,
                   watcher_handle, extracted_dict, prune_log>>

\* the engine answers only when it is asked
AnswersIfAsked(asked, answers) == IF asked THEN answers ELSE {NoAnswer}

GetVariant ==
    /\ Ready
    /\ \E name \in ExperimentNames, kw \in KwargsPool,
       answer \in AnswersIfAsked(internal # "None", ChooseAnswers) :
        Call("get_variant", [experiment_name |-> name, exposure_kwargs |-> kw],
             answer, get_variant(name, kw, answer))

GetVariantWithoutExpose ==
    /\ Ready
    /\ \E name \in ExperimentNames,
       answer \in AnswersIfAsked(internal # "None", ChooseAnswers) :
        Call("get_variant_without_expose", [experiment_name |-> name],
             answer, get_variant_without_expose(name, answer))

\* the engine is reached only with a supported identifier_type and a handle
CtxAsked(t) == t \in IDENTIFIERS /\ internal # "None"

GetVariantForIdentifier ==
    /\ Ready
    /\ \E name \in ExperimentNames, id \in IdentifierPool, t \in IdentifierTypePool,
       kw \in KwargsPool :
      \E answer \in AnswersIfAsked(CtxAsked(t), ContextAnswers) :
        Call("get_variant_for_identifier",
             [experiment_name |-> name, identifier |-> id, identifier_type |-> t,
              exposure_kwargs |-> kw],
             answer, get_variant_for_identifier(name, id, t, kw, answer))

GetVariantForIdentifierWithoutExpose ==
    /\ Ready
    /\ \E name \in ExperimentNames, id \in IdentifierPool, t \in IdentifierTypePool :
      \E answer \in AnswersIfAsked(CtxAsked(t), ContextAnswers) :
        Call("get_variant_for_identifier_without_expose",
             [experiment_name |-> name, identifier |-> id, identifier_type |-> t],
             answer, get_variant_for_identifier_without_expose(name, id, t, answer))

GetAllVariantsForIdentifierWithoutExpose ==
    /\ Ready
    /\ \E id \in IdentifierPool, t \in IdentifierTypePool :
        \E answer \in AnswersIfAsked(CtxAsked(t), BulkAnswers) :
          Call("get_all_variants_for_identifier_without_expose",
               [identifier |-> id, identifier_type |-> t],
               answer, get_all_variants_for_identifier_without_expose(id, t, answer))

Expose ==
    /\ Ready
    /\ \E name \in ExperimentNames, v \in VariantNames, kw \in KwargsPool,
          lookup \in AnswersIfAsked(internal # "None", LookupAnswers) :
        Call("expose", [experiment_name |-> name, variant_name |-> v, exposure_kwargs |-> kw],
             lookup, expose(name, v, kw, lookup))

\* the typed accessors: a name, a default and the engine's answer
GetBool ==
    /\ Ready
    /\ \E name \in ConfigNames, default \in Defaults("get_bool"),
          answer \in AnswersIfAsked(internal # "None", ConfigAnswers("get_bool")) :
        Call("get_bool", [feature_name |-> name, default |-> default],
             answer, get_bool(name, default, answer))

GetInt ==
    /\ Ready
    /\ \E name \in ConfigNames, default \in Defaults("get_int"),
          answer \in AnswersIfAsked(internal # "None", ConfigAnswers("get_int")) :
        Call("get_int", [feature_name |-> name, default |-> default],
             answer, get_int(name, default, answer))

GetFloat ==
    /\ Ready
    /\ \E name \in ConfigNames, default \in Defaults("get_float"),
          answer \in AnswersIfAsked(internal # "None", ConfigAnswers("get_float")) :
        Call("get_float", [feature_name |-> name, default |-> default],
             answer, get_float(name, default, answer))

GetString ==
    /\ Ready
    /\ \E name \in ConfigNames, default \in Defaults("get_string"),
          answer \in AnswersIfAsked(internal # "None", ConfigAnswers("get_string")) :
        Call("get_string", [feature_name |-> name, default |-> default],
             answer, get_string(name, default, answer))

GetMap ==
    /\ Ready
    /\ \E name \in ConfigNames, default \in Defaults("get_map"),
          answer \in AnswersIfAsked(internal # "None", ConfigAnswers("get_map")) :
        Call("get_map", [feature_name |-> name, default |-> default],
             answer, get_map(name, default, answer))

GetExperiment ==
    /\ Ready
    /\ \E name \in ExperimentNames,
          lookup \in AnswersIfAsked(internal # "None", LookupAnswers) :
        Call("get_experiment", [experiment_name |-> name],
             lookup, get_experiment(name, lookup))

GetAllDynamicConfigs ==
    /\ Ready
    /\ \E answer \in AnswersIfAsked(internal # "None", AllValuesAnswers) :
        Call("get_all_dynamic_configs", NoArgs, answer, get_all_dynamic_configs(answer))

\* the engine is reached only through an attribute the object has
GetAllVariantsWithoutExpose ==
    /\ Ready
    /\ \E answer \in AnswersIfAsked("_rs_decider" \in Attributes /\ internal # "None",
                                    LegacyAnswers) :
        Call("get_all_variants_without_expose", NoArgs, answer,
             get_all_variants_without_expose(answer))

Next ==
    \/ GetVariant
    \/ GetVariantWithoutExpose
    \/ GetVariantForIdentifier
    \/ GetVariantForIdentifierWithoutExpose
    \/ GetAllVariantsForIdentifierWithoutExpose
    \/ Expose
    \/ GetBool
    \/ GetInt
    \/ GetFloat
    \/ GetString
    \/ GetMap
    \/ GetExperiment
    \/ GetAllDynamicConfigs
    \/ GetAllVariantsWithoutExpose
    \/ Return

Spec == Init /\ [][Next]_vars

\* A logger whose n-th call of an operation raises, n in LoggerFailures
LoggerFailures == 1..MaxEvents

InitLoggerFails ==
    /\ InitDecider
    /\ logger_fail_at \in LoggerFailures

SpecLoggerFails == InitLoggerFails /\ [][Next]_vars

\* exposure_kwargs whose key is a parameter the log call passes by name
ReservedKwargsPool ==
    {[variant |-> "mine"], [event_type |-> "CLICK"], [experiment |-> "other"],
     [span |-> "my_span"], [subreddit_id |-> "t5_1"]}

GetVariantAnyKwargs ==
    /\ Ready
    /\ \E name \in ExperimentNames, kw \in ReservedKwargsPool,
       answer \in AnswersIfAsked(internal # "None", ChooseAnswers) :
        Call("get_variant", [experiment_name |-> name, exposure_kwargs |-> kw],
             answer, get_variant(name, kw, answer))

GetVariantForIdentifierAnyKwargs ==
    /\ Ready
    /\ \E name \in ExperimentNames, id \in IdentifierPool, t \in IdentifierTypePool,
       kw \in ReservedKwargsPool :
      \E answer \in AnswersIfAsked(CtxAsked(t), ContextAnswers) :
        Call("get_variant_for_identifier",
             [experiment_name |-> name, identifier |-> id, identifier_type |-> t,
              exposure_kwargs |-> kw],
             answer, get_variant_for_identifier(name, id, t, kw, answer))

ExposeAnyKwargs ==
    /\ Ready
    /\ \E name \in ExperimentNames, v \in VariantNames, kw \in ReservedKwargsPool,
          lookup \in AnswersIfAsked(internal # "None", LookupAnswers) :
        Call("expose", [experiment_name |-> name, variant_name |-> v, exposure_kwargs |-> kw],
             lookup, expose(name, v, kw, lookup))

NextAnyKwargs ==
    \/ GetVariantAnyKwargs
    \/ GetVariantForIdentifierAnyKwargs
    \/ ExposeAnyKwargs
    \/ Return

SpecAnyKwargs == Init /\ [][NextAnyKwargs]_vars

----------------------------------------------------------------------------
(* The views of the snapshot in the caller's hands *)

InitSnapshot ==
    /\ decider_context \in SnapshotPool
    /\ internal \in {"None", "Handle"}
    /\ logger_fail_at = 0
    /\ op = "idle"
    /\ args = NoArgs
    /\ engine_result = NoAnswer
    /\ result = NoneVal
    /\ outcome = "returned"
    /\ log_calls = << >>
    /\ engine_calls = << >>
    /\ diagnostics = << >>
    /\ total_logged = 0
    /\ n_ops = 0
    /\ watcher_handle = internal
    /\ aliased = {}
    /\ extracted_dict = << >>
    /\ prune_log = << >>

\* decider_context.to_dict() called by the holder of the snapshot
ToDict ==
    /\ Ready
    /\ Call("to_dict", NoArgs, NoAnswer,
            Done(to_dict(decider_context), NoneVal, << >>, << >>, << >>))

ToEventDict ==
    /\ Ready
    /\ Call("to_event_dict", NoArgs, NoAnswer,
            Done(to_event_dict(decider_context), NoneVal, << >>, << >>, << >>))

ChangedByCaller == [changed_by |-> "caller"]

\* a write into the object obj of a dict built from the snapshot: it reaches
\* the snapshot's bag when obj is that bag
Written(dc, obj) ==
    IF obj \in aliased
    THEN [dc EXCEPT !.extracted_fields = Merge(@, Single("app_name", "changed"))]
    ELSE dc

\* The caller writes into the dict to_dict() returned: a top-level key of
\* the new dict, and a key of its other_fields, which is the ef of to_dict.
CallerChangesDict ==
    /\ op = "to_dict"
    /\ args = NoArgs
    /\ args' = ChangedByCaller
    /\ result' = [Merge(result, Single("user_id", "changed")) EXCEPT
                     !["other_fields"] = Merge(@, Single("app_name", "changed"))]
    /\ decider_context' = Written(decider_context, "_extracted_fields")
    /\ UNCHANGED <<internal, logger_fail_at, op, engine_result, outcome, log_calls,
                   engine_calls, diagnostics, total_logged, n_ops, watcher_handle,
                   aliased, extracted_dict, prune_log>>

\* The caller writes into the dict to_event_dict() returned: a top-level
\* key and a key of the nested user group, both built by the call.
CallerChangesEventDict ==
    /\ op = "to_event_dict"
    /\ args = NoArgs
    /\ args' = ChangedByCaller
    /\ result' = [Merge(result, Single("user_id", "changed")) EXCEPT
                     !["user"] = [@ EXCEPT !.id = "changed"]]
    /\ decider_context' = Written(decider_context, "user_fields")
    /\ UNCHANGED <<internal, logger_fail_at, op, engine_result, outcome, log_calls,
                   engine_calls, diagnostics, total_logged, n_ops, watcher_handle,
                   aliased, extracted_dict, prune_log>>

\* The logger writes into the inputs dict of the first record it was handed,
\* the event_fields of the call that emitted it.
LoggerChangesRecord ==
    /\ log_calls # << >>
    /\ args # ChangedByCaller
    /\ args' = ChangedByCaller
    /\ log_calls' = [log_calls EXCEPT ![1].inputs = Merge(@, Single("app_name", "changed"))]
    /\ decider_context' = Written(decider_context, "event_fields")
    /\ UNCHANGED <<internal, logger_fail_at, op, engine_result, result, outcome,
                   engine_calls, diagnostics, total_logged, n_ops, watcher_handle,
                   aliased, extracted_dict, prune_log>>

NextSnapshot ==
    \/ GetVariantForIdentifierWithoutExpose
    \/ Expose
    \/ GetBool
    \/ Return
    \/ ToDict
    \/ ToEventDict
    \/ CallerChangesDict
    \/ CallerChangesEventDict
    \/ LoggerChangesRecord

SpecSnapshot == InitSnapshot /\ [][NextSnapshot]_vars

----------------------------------------------------------------------------
(* The file watcher of DeciderContextFactory *)

\* the handles the watcher's parser builds from successive config files
Handles == {"Handle", "Handle2"}

\* The config file changed: the watcher parses it into a new handle, which
\* get_data() returns from now on.  The Decider of the request is not told.
Reload ==
    /\ \E h \in Handles \ {watcher_handle} : watcher_handle' = h
    /\ UNCHANGED <<decider_context, internal, logger_fail_at, op, args, engine_result,
                   result, outcome, log_calls, engine_calls, diagnostics, total_logged,
                   n_ops, aliased, extracted_dict, prune_log>>

NextReload ==
    \/ Reload
    \/ GetVariant
    \/ GetVariantWithoutExpose
    \/ GetVariantForIdentifier
    \/ Expose
    \/ GetBool
    \/ GetExperiment
    \/ Return

SpecReload == Init /\ [][NextReload]_vars

----------------------------------------------------------------------------
(* DeciderContextFactory._prune_extracted_dict *)

\* An entry of a dict: its key with the key's type, its value with the
\* value's type.  A key of type "object" is hashed by identity (no __eq__,
\* no __hash__ of its own); id tells such a key from its copies.
Entry(key, ktype, val, vtype) ==
    [key |-> key, ktype |-> ktype, id |-> 0, val |-> val, vtype |-> vtype]

\* What an extractor can return: entries the type hint allows, one with
\* each kind of value, and the ones it does not: the tests' dict value,
\* bool key and None key, a key object and a value that cannot be copied.
ExtractedEntries ==
    {Entry("app_name", "str", "ios", "str"),
     Entry("build_number", "str", "1", "int"),
     Entry("ratio", "str", "1.5", "float"),
     Entry("locale", "str", NoneVal, "NoneType"),
     Entry("beta", "str", "True", "bool"),
     Entry("app_version", "str", "{}", "dict"),
     Entry("True", "bool", "bool", "str"),
     Entry(NoneVal, "NoneType", "[]", "list"),
     Entry("obj", "object", "1", "int"),
     Entry("lock_held", "str", "lock", "Lock")}

\* a dict is the sequence of its entries in insertion order, its keys distinct
ExtractedDicts ==
    {m \in UNION {[1..n -> ExtractedEntries] : n \in 0..MaxEntries} :
        \A i, j \in DOMAIN m : i # j => m[i] # m[j]}

\* isinstance(v, (int, float, str, bool))
ScalarTypes == {"int", "float", "str", "bool"}

\* types whose values copy.deepcopy cannot copy (no pickle support)
Uncopyable == {"Lock"}

\* copy.deepcopy of a dict: equal keys and values, but a new object for each
\* key object, and TypeError for a value that cannot be copied
deepcopy_dict(m) ==
    IF \E i \in DOMAIN m : m[i].vtype \in Uncopyable
    THEN [exc |-> "TypeError", val |-> << >>]
    ELSE [exc |-> NoneVal,
          val |-> [i \in DOMAIN m |->
                     IF m[i].ktype = "object" THEN [m[i] EXCEPT !.id = @ + 1] ELSE m[i]]]

\* the keys of two entries are equal (and hash alike)
SameKey(a, b) == a.key = b.key /\ a.ktype = b.ktype /\ a.id = b.id

HasKey(m, e) == \E i \in DOMAIN m : SameKey(m[i], e)

\* del m[k]
DelItem(m, e) == SelectSeq(m, LAMBDA x : ~SameKey(x, e))

\* the for loop over extracted_dict.items(); del raises KeyError when the
\* copy has no such key
RECURSIVE PruneLoop(_, _, _, _)
PruneLoop(items, i, parsed, diag) ==
    IF i > Len(items)
    THEN [result |-> parsed, exc |-> NoneVal, diag |-> diag]
    ELSE LET e == items[i]
             invalid_key == e.ktype # "str"
             invalid_val == e.vtype \notin ScalarTypes /\ e.vtype # "NoneType"
         IN  IF invalid_key \/ invalid_val
             THEN LET line == << "info", IF invalid_key THEN "key" ELSE "value", e.key >>
                  IN  IF HasKey(parsed, e)
                      THEN PruneLoop(items, i + 1, DelItem(parsed, e), Append(diag, line))
                      ELSE [result |-> NoneVal, exc |-> "KeyError", diag |-> Append(diag, line)]
             ELSE PruneLoop(items, i + 1, parsed, diag)

\* _prune_extracted_dict that deletes from the dict it was given
prune_extracted_dict_InPlace(dict) ==
    LET r == PruneLoop(dict, 1, dict, << >>)
    IN  [result |-> r.result, exc |-> r.exc, diag |-> r.diag,
         input |-> IF r.exc = NoneVal THEN r.result ELSE dict]

\* result and diagnostics of the call, the exception that left it, and the
\* dict it was given as the call leaves it
prune_extracted_dict(dict) ==
    LET parsed_extracted_fields == deepcopy_dict(dict)
    IN  IF parsed_extracted_fields.exc # NoneVal
        THEN [result |-> NoneVal, exc |-> parsed_extracted_fields.exc, diag |-> << >>,
              input |-> dict]
        ELSE LET r == PruneLoop(dict, 1, parsed_extracted_fields.val, << >>)
             IN  [result |-> r.result, exc |-> r.exc, diag |-> r.diag, input |-> dict]

\* a factory whose extractor has returned a dict, before any pruning
InitPrune ==
    /\ decider_context = MinimalContext
    /\ internal = "None"
    /\ logger_fail_at = 0
    /\ op = "idle"
    /\ args = NoArgs
    /\ engine_result = NoAnswer
    /\ result = NoneVal
    /\ outcome = "returned"
    /\ log_calls = << >>
    /\ engine_calls = << >>
    /\ diagnostics = << >>
    /\ total_logged = 0
    /\ n_ops = 0
    /\ watcher_handle = "None"
    /\ aliased = {}
    /\ extracted_dict \in ExtractedDicts
    /\ prune_log = << >>

\* one call of _prune_extracted_dict on the extractor's dict
PruneExtractedDict ==
    /\ Ready
    /\ LET p == prune_extracted_dict(extracted_dict)
           how == IF p.exc = NoneVal THEN "returned" ELSE p.exc
       IN  /\ op' = "_prune_extracted_dict"
           /\ args' = [extracted_dict |-> extracted_dict]
           /\ engine_result' = NoAnswer
           /\ result' = p.result
           /\ outcome' = how
           /\ log_calls' = << >>
           /\ engine_calls' = << >>
           /\ diagnostics' = p.diag
           /\ n_ops' = n_ops + 1
           /\ extracted_dict' = p.input
           /\ prune_log' = Append(prune_log,
                                  [input |-> extracted_dict, outcome |-> how,
                                   result |-> p.result, diagnostics |-> p.diag])
           /\ UNCHANGED <<decider_context, internal, logger_fail_at, total_logged,
                          watcher_handle, aliased>>

\* the caller goes on with the pruned dict in place of the extractor's
ReturnPruned ==
    /\ op = "_prune_extracted_dict"
    /\ outcome = "returned"
    /\ op' = "idle"
    /\ args' = NoArgs
    /\ engine_result' = NoAnswer
    /\ result' = NoneVal
    /\ outcome' = "returned"
    /\ log_calls' = << >>
    /\ engine_calls' = << >>
    /\ diagnostics' = << >>
    /\ extracted_dict' = result
    /\ UNCHANGED <<decider_context, internal, logger_fail_at, total_logged, n_ops,
                   watcher_handle, aliased, prune_log>>

NextPrune ==
    \/ PruneExtractedDict
    \/ ReturnPruned
    \/ Return

SpecPrune == InitPrune /\ [][NextPrune]_vars

----------------------------------------------------------------------------
(* Properties *)

\* the number of fields of a raw event: one more than its delimiters
FieldCount(ev) == Cardinality({i \in DOMAIN ev : ev[i] = SEP}) + 1

\* field k of a raw event: the token that follows its (k-1)-th delimiter
Field(ev, k) == ev[2 * k - 1]

WellFormed(ev) == FieldCount(ev) = 10

WellFormedOf(events) == SelectSeq(events, WellFormed)

\* an event's classification is a field of a parsed event
IsHoldout(ev) == WellFormed(ev) /\ Field(ev, 1) = "2"

HoldoutsOf(events) == SelectSeq(events, IsHoldout)

EagerOps == {"get_variant", "get_variant_for_identifier"}
DeferredOps == {"get_variant_without_expose", "get_variant_for_identifier_without_expose"}

\* the call was answered by the engine with a decision
Decided(ops) == op \in ops /\ engine_result.status = "ok"

\* the logger received one call per event of es, in order, each naming the
\* experiment and the variant of its event
LoggedExactly(es) ==
    /\ Len(log_calls) = Len(es)
    /\ \A i \in 1..Len(es) :
         /\ log_calls[i].experiment.name = Field(es[i], 3)
         /\ log_calls[i].variant = Field(es[i], 5)
         /\ log_calls[i].event_type = EXPOSE

\* C1 as stated: in eager mode a decision with N raw events makes exactly N
\* logger calls, one per raw event, and the variant is returned.
C1_EveryRawEventLogged ==
    Decided(EagerOps) =>
        /\ Len(log_calls) = Len(engine_result.events)
        /\ outcome = "returned"
        /\ result = engine_result.variant

\* C1 amended: in eager mode the logger is called once per raw event that
\* splits into exactly 10 fields, whatever its classification (0, 1 or 2), in
\* the order of the events; an event with another field count makes no call;
\* the decision's variant is returned.
C1_EagerLogsEachWellFormedEvent ==
    Decided(EagerOps) =>
        /\ LoggedExactly(WellFormedOf(engine_result.events))
        /\ outcome = "returned"
        /\ result = engine_result.variant

\* an eager call whose decision holds a malformed event and an override
\* (class 1) event: two raw events, one logger call, the variant returned
C1_Witness ==
    /\ Decided({"get_variant"})
    /\ engine_result.events = << MalformedEvent, OverrideEvent >>
    /\ Len(log_calls) = 1
    /\ log_calls[1].variant = "control_1"
    /\ result = "variant_4"

\* C2: in deferred mode the logger is called exactly once for each raw
\* event of classification 2, in order, and never for an event of
\* classification 0 or 1; with no class-2 event there is no logger call;
\* the variant is returned in every case.
C2_DeferredLogsHoldoutsOnly ==
    Decided(DeferredOps) =>
        /\ LoggedExactly(HoldoutsOf(engine_result.events))
        /\ \A i \in 1..Len(log_calls) : log_calls[i].variant = "holdout"
        /\ outcome = "returned"
        /\ result = engine_result.variant

\* a deferred call whose decision has a regular event and a holdout event:
\* one logger call, the variant returned
C2_Witness ==
    /\ Decided({"get_variant_without_expose"})
    /\ engine_result.events = << RegularEvent, HoldoutEvent >>
    /\ Len(log_calls) = 1
    /\ result = "variant_4"

\* C3: when the decision for the child experiment has variant None and the
\* single class-2 event of the parent holdout, the deferred call returns
\* None and logs exactly one exposure, whose experiment id, name, version
\* and variant are the holdout's, read from the event, and not the child's.
C3_HoldoutOverride ==
    (/\ Decided(DeferredOps)
     /\ engine_result.variant = NoneVal
     /\ engine_result.events = << HoldoutEvent >>)
    =>  /\ outcome = "returned"
        /\ result = NoneVal
        /\ Len(log_calls) = 1
        /\ log_calls[1].experiment.id = 2
        /\ log_calls[1].experiment.name = "hg"
        /\ log_calls[1].experiment.version = "5"
        /\ log_calls[1].variant = "holdout"
        /\ log_calls[1].experiment.name # args.experiment_name

\* exp_1 asked for through an identifier, the holdout hg exposed
C3_Witness ==
    /\ Decided({"get_variant_for_identifier_without_expose"})
    /\ args.experiment_name = "exp_1"
    /\ engine_result.variant = NoneVal
    /\ engine_result.events = << HoldoutEvent >>
    /\ Len(log_calls) = 1
    /\ log_calls[1].experiment.name = "hg"

IdentifierOps ==
    {"get_variant_for_identifier", "get_variant_for_identifier_without_expose",
     "get_all_variants_for_identifier_without_expose"}

\* the events of the decisions of a choose_all answer that are no errors
RECURSIVE EventsOfDecisions(_, _)
EventsOfDecisions(decisions, i) ==
    IF i > Len(decisions) THEN << >>
    ELSE (IF decisions[i].err = NoneVal THEN decisions[i].events ELSE << >>)
         \o EventsOfDecisions(decisions, i + 1)

\* the events an identifier-targeted call emits for, by its mode
EmittedByIdentifierCall ==
    CASE op = "get_variant_for_identifier" -> WellFormedOf(engine_result.events)
      [] op = "get_variant_for_identifier_without_expose" -> HoldoutsOf(engine_result.events)
      [] op = "get_all_variants_for_identifier_without_expose" ->
             HoldoutsOf(EventsOfDecisions(engine_result.decisions, 1))

\* C4: in each of the three identifier-targeted calls every record handed
\* to the logger has, under the key named by its event's bucketing field
\* (field 7), the bucketing value of that event (field 6), at the top level
\* and in inputs, whatever the context (or a kwarg) holds under that key.
C4_IdentifierSubstitution ==
    Decided(IdentifierOps) =>
        /\ Len(log_calls) = Len(EmittedByIdentifierCall)
        /\ \A i \in 1..Len(log_calls) :
             LET ev == EmittedByIdentifierCall[i]
             IN  /\ Field(ev, 7) \in DOMAIN log_calls[i].kwargs
                 /\ log_calls[i].kwargs[Field(ev, 7)] = Field(ev, 6)
                 /\ log_calls[i].inputs[Field(ev, 7)] = Field(ev, 6)

\* the context holds user_id t2_1234, the event was bucketed on user_id
\* t2_9999, and the record says t2_9999
C4_Witness ==
    /\ Decided({"get_variant_for_identifier"})
    /\ decider_context.user_id = "t2_1234"
    /\ engine_result.events = << RegularEvent >>
    /\ Len(log_calls) = 1
    /\ log_calls[1].kwargs["user_id"] = "t2_9999"

SingleIdentifierOps ==
    {"get_variant_for_identifier", "get_variant_for_identifier_without_expose"}

\* C5: when the engine answers an identifier-targeted single-experiment
\* call with an error, the call returns None, makes no logger call and
\* raises nothing, also when the engine had the parent holdout's event.
C5_BucketMismatch ==
    (op \in SingleIdentifierOps /\ engine_result.status \in {"error", "not_found"}) =>
        /\ outcome = "returned"
        /\ result = NoneVal
        /\ log_calls = << >>

\* the error of an experiment nested under a holdout, in deferred mode
C5_Witness ==
    /\ op = "get_variant_for_identifier_without_expose"
    /\ engine_result.status = "error"
    /\ engine_result.events = << HoldoutEvent >>
    /\ result = NoneVal
    /\ log_calls = << >>

\* C6: with an identifier_type other than user_id, device_id and
\* canonical_url, each identifier-targeted call returns its empty result
\* (None, None, the empty list), never calls the engine and makes no logger
\* call.
C6_IdentifierWhitelist ==
    (op \in IdentifierOps /\ args.identifier_type \notin {"user_id", "device_id", "canonical_url"}) =>
        /\ outcome = "returned"
        /\ result = IF op = "get_all_variants_for_identifier_without_expose"
                       THEN << >> ELSE NoneVal
        /\ engine_calls = << >>
        /\ log_calls = << >>

\* the bulk call with the type "blah" on a Decider that has an engine handle
C6_Witness ==
    /\ op = "get_all_variants_for_identifier_without_expose"
    /\ args.identifier_type = "blah"
    /\ internal = "Handle"
    /\ result = << >>
    /\ engine_calls = << >>

\* C7: expose makes no logger call when the experiment's descriptor marks
\* exposure emission as disabled.
C7_NoExposeWhenEmissionDisabled ==
    (/\ op = "expose"
     /\ engine_result.status = "found"
     /\ DictGet(engine_result.val, "emit_event") = "False")
    => log_calls = << >>

\* C8: expose makes no logger call when variant is None or the empty string.
C8_NoExposeOfEmptyVariant ==
    (op = "expose" /\ args.variant_name \in {NoneVal, ""}) => log_calls = << >>

\* C9: expose, for an experiment get_experiment knows, makes exactly one
\* logger call with the given variant and the descriptor (id, name, version,
\* bucket_val, owner) of the lookup, and never calls choose; with no engine
\* handle or an error from the lookup it makes no logger call and returns.
C9_ExposeLogsOnceFromLookup ==
    op = "expose" =>
        /\ \A i \in 1..Len(engine_calls) : engine_calls[i].method \notin {"choose", "choose_all"}
        /\ engine_result.status = "found" =>
             /\ Len(log_calls) = 1
             /\ log_calls[1].variant = args.variant_name
             /\ log_calls[1].event_type = EXPOSE
             /\ log_calls[1].experiment.id =
                    (IF "id" \in DOMAIN engine_result.val
                        THEN IntLiterals[engine_result.val["id"]] ELSE 0)
             /\ log_calls[1].experiment.name = DictGet(engine_result.val, "name")
             /\ log_calls[1].experiment.version = Str(DictGet(engine_result.val, "version"))
             /\ log_calls[1].experiment.bucket_val =
                    (IF "variant_set" \in DOMAIN engine_result.val
                        THEN engine_result.val["variant_set"]["bucket_val"] ELSE NoneVal)
             /\ log_calls[1].experiment.owner = DictGet(engine_result.val, "owner")
        /\ (internal = "None" \/ engine_result.status = "error") =>
             /\ log_calls = << >>
             /\ outcome = "returned"

\* expose("exp_1", "variant_4") logged with the descriptor of exp_1
C9_Witness ==
    /\ op = "expose"
    /\ engine_result.status = "found"
    /\ args.variant_name = "variant_4"
    /\ Len(log_calls) = 1
    /\ log_calls[1].experiment.id = 1
    /\ log_calls[1].experiment.bucket_val = "user_id"
    /\ Len(engine_calls) = 2

ConfigOps == {"get_bool", "get_int", "get_float", "get_string", "get_map"}

\* C10: a typed accessor returns the supplied default, and raises nothing,
\* when there is no engine handle, the config is not found, its type does
\* not match, or the engine reports any other error, the error of building
\* the engine context included; otherwise it returns the engine's value.
C10_DefaultOnEveryFailure ==
    op \in ConfigOps =>
        /\ outcome = "returned"
        /\ result = IF internal # "None" /\ engine_result.status = "ok"
                       THEN engine_result.val ELSE args.default

ZeroValues == {"False", "0", "0.0", "", "{}"}

\* C11: get_all_dynamic_configs never drops a config the engine enumerates:
\* each one is in the returned list under its name, and one whose
\* evaluation reports an error is there with the zero value of its type.
C11_NoConfigDropped ==
    (op = "get_all_dynamic_configs" /\ engine_result.status = "ok") =>
        /\ outcome = "returned"
        /\ \A i \in 1..Len(engine_result.decisions) :
             \E j \in 1..Len(result) :
                /\ result[j].name = engine_result.decisions[i].name
                /\ engine_result.decisions[i].err # NoneVal => result[j].value \in ZeroValues

BulkIdentifierOp == "get_all_variants_for_identifier_without_expose"

\* the experiments of a choose_all answer whose decision is an error
FailingOf(decisions) == {i \in 1..Len(decisions) : decisions[i].err # NoneVal}

\* the experiments of a choose_all answer that are decided with a variant
DecidedOf(decisions) ==
    {i \in 1..Len(decisions) :
        decisions[i].err = NoneVal /\ decisions[i].decision_dict # EmptyDict}

\* C12: in get_all_variants_for_identifier_without_expose, with errors for
\* some experiments and decisions for others, the returned list has an
\* entry for exactly the non-error experiments that have a decision, a
\* diagnostic names each failing experiment, no exposure is emitted for a
\* failing experiment, and the call returns.
C12_BulkPartialFailureIsolated ==
    (op = BulkIdentifierOp /\ engine_result.status = "ok") =>
        LET decisions == engine_result.decisions
        IN  /\ outcome = "returned"
            /\ Len(result) = Cardinality(DecidedOf(decisions))
            /\ \A i \in DecidedOf(decisions) :
                 \E j \in 1..Len(result) :
                    /\ result[j].experimentName = decisions[i].name
                    /\ result[j].name = decisions[i].decision_dict["name"]
            /\ \A i \in FailingOf(decisions) :
                 /\ \A j \in 1..Len(result) : result[j].experimentName # decisions[i].name
                 /\ \E k \in 1..Len(diagnostics) : diagnostics[k] = << "info", decisions[i].name >>
            /\ Len(log_calls) = Len(HoldoutsOf(EventsOfDecisions(decisions, 1)))

\* exp_1 fails and carries the holdout's event, e1 is decided: one entry,
\* one diagnostic, no exposure
C12_Witness ==
    /\ op = BulkIdentifierOp
    /\ engine_result.status = "ok"
    /\ Len(engine_result.decisions) = 2
    /\ engine_result.decisions[1].err # NoneVal
    /\ engine_result.decisions[1].events = << HoldoutEvent >>
    /\ engine_result.decisions[2].decision_dict # EmptyDict
    /\ engine_result.decisions[2].events = << RegularEvent >>
    /\ Len(result) = 1
    /\ result[1].experimentName = "e1"
    /\ diagnostics = << << "info", "exp_1" >> >>
    /\ log_calls = << >>

\* C13: get_all_variants_without_expose, given an available engine, returns
\* the entries of the decisions with a variant and emits for exactly the
\* class-2 events of all decisions.
C13_AllVariantsReturned ==
    (op = "get_all_variants_without_expose" /\ internal # "None") =>
        /\ outcome = "returned"
        /\ \A i \in 1..Len(log_calls) : log_calls[i].variant = "holdout"

\* the variant a decision of choose_all resolved to: its dict is empty when
\* no variant is assigned
VariantOf(decision) == DictGet(decision.decision_dict, "name")

\* C14: get_all_variants_for_identifier_without_expose leaves out of its
\* result every experiment whose variant is empty or None, still emits for
\* each class-2 event of such an experiment, and over the batch emits for
\* class-2 events only, never for class 0 or 1.
C14_BulkExcludesEmptyEmitsHoldouts ==
    (op = BulkIdentifierOp /\ engine_result.status = "ok") =>
        LET decisions == engine_result.decisions
        IN  /\ \A i \in 1..Len(decisions) :
                 (decisions[i].err = NoneVal /\ VariantOf(decisions[i]) \in {NoneVal, ""}) =>
                     \A j \in 1..Len(result) : result[j].experimentName # decisions[i].name
            /\ LoggedExactly(HoldoutsOf(EventsOfDecisions(decisions, 1)))
            /\ \A k \in 1..Len(log_calls) : log_calls[k].variant = "holdout"

\* exp_1 resolves to no variant under its holdout, e1 is decided with a
\* holdout and an override event: one entry (e1), two exposures, both holdouts
C14_Witness ==
    /\ op = BulkIdentifierOp
    /\ engine_result.status = "ok"
    /\ Len(engine_result.decisions) = 2
    /\ engine_result.decisions[1].err = NoneVal
    /\ engine_result.decisions[1].decision_dict = EmptyDict
    /\ engine_result.decisions[1].events = << HoldoutEvent >>
    /\ engine_result.decisions[2].events = << HoldoutEvent, OverrideEvent >>
    /\ Len(result) = 1
    /\ result[1].experimentName = "e1"
    /\ Len(log_calls) = 2

EmptyListOps ==
    {"get_all_variants_without_expose", "get_all_variants_for_identifier_without_expose",
     "get_all_dynamic_configs"}

\* C15: without an engine handle every read operation returns its degraded
\* result (None, the empty list, the default) and raises nothing, expose
\* does nothing, and none of them emits an exposure.
C15_EngineUnavailableDegrades ==
    (op # "idle" /\ internal = "None") =>
        /\ outcome = "returned"
        /\ log_calls = << >>
        /\ result = (CASE op \in EmptyListOps -> << >>
                       [] op \in ConfigOps -> args.default
                       [] OTHER -> NoneVal)

\* C16: a logger call that raises does not reach the caller: the single
\* decision calls still return the engine's variant, the bulk call returns,
\* and expose returns.
C16_LoggerFailureContained ==
    /\ Decided(EagerOps \cup DeferredOps) =>
          (outcome = "returned" /\ result = engine_result.variant)
    /\ (op = BulkIdentifierOp /\ engine_result.status = "ok") => outcome = "returned"
    /\ (op = "expose" /\ engine_result.status = "found") => outcome = "returned"

KwargsOps == {"get_variant", "get_variant_for_identifier", "expose"}

\* C17: whatever exposure_kwargs the caller passes, also ones keyed variant,
\* event_type, experiment or span, each record has the variant of the
\* decision (or of the expose argument), event_type EXPOSE, the experiment
\* descriptor and the server span, and the call returns.
C17_ReservedFieldsKept ==
    /\ Decided(EagerOps) =>
          /\ outcome = "returned"
          /\ LoggedExactly(WellFormedOf(engine_result.events))
          /\ \A i \in 1..Len(log_calls) : log_calls[i].span = SPAN
    /\ (op = "expose" /\ engine_result.status = "found") =>
          /\ outcome = "returned"
          /\ Len(log_calls) = 1
          /\ log_calls[1].variant = args.variant_name
          /\ log_calls[1].event_type = EXPOSE
          /\ log_calls[1].span = SPAN

\* the event of the i-th record of an eager call
EventOfRecord(i) == WellFormedOf(engine_result.events)[i]

\* C18 as stated: every key/value of exposure_kwargs is in each emitted
\* record, at the top level and in inputs, alongside the context's
\* event-view fields.
C18_EveryKwargInEveryRecord ==
    op \in KwargsOps =>
        \A i \in 1..Len(log_calls) :
            /\ DOMAIN to_event_dict(decider_context) \subseteq DOMAIN log_calls[i].kwargs
            /\ \A k \in DOMAIN args.exposure_kwargs :
                 /\ k \in DOMAIN log_calls[i].kwargs
                 /\ log_calls[i].kwargs[k] = args.exposure_kwargs[k]
                 /\ log_calls[i].inputs[k] = args.exposure_kwargs[k]

\* the key of a record that get_variant_for_identifier sets from the event
Substituted(i, k) == op = "get_variant_for_identifier" /\ k = Field(EventOfRecord(i), 7)

\* C18: for get_variant, get_variant_for_identifier and expose every
\* key/value of exposure_kwargs is in each emitted record, at the top level
\* and in inputs, alongside the context's event-view fields, except the key
\* that names the event's bucketing field in get_variant_for_identifier,
\* which holds the event's bucketing value.
C18_KwargsInRecordButBucketingField ==
    op \in KwargsOps =>
        \A i \in 1..Len(log_calls) :
            LET record == log_calls[i]
                ctx_fields == to_event_dict(decider_context)
            IN  /\ record.inputs = record.kwargs
                /\ DOMAIN ctx_fields \subseteq DOMAIN record.kwargs
                /\ \A k \in DOMAIN args.exposure_kwargs :
                     /\ k \in DOMAIN record.kwargs
                     /\ ~Substituted(i, k) => record.kwargs[k] = args.exposure_kwargs[k]
                     /\ Substituted(i, k) => record.kwargs[k] = Field(EventOfRecord(i), 6)
                /\ \A k \in (DOMAIN ctx_fields) \ (DOMAIN args.exposure_kwargs) :
                     ~Substituted(i, k) => record.kwargs[k] = ctx_fields[k]

\* get_variant_for_identifier with kwargs subreddit_id and user_id and an
\* event bucketed on user_id: the record has the kwarg's subreddit_id and
\* the event's user_id
C18_Witness ==
    /\ Decided({"get_variant_for_identifier"})
    /\ "user_id" \in DOMAIN args.exposure_kwargs
    /\ engine_result.events = << RegularEvent >>
    /\ Len(log_calls) = 1
    /\ log_calls[1].kwargs["subreddit_id"] = "t5_1"
    /\ log_calls[1].inputs["subreddit_id"] = "t5_1"
    /\ log_calls[1].kwargs["user_id"] = "t2_9999"

MalformedOf(events) == {i \in 1..Len(events) : ~WellFormed(events[i])}

\* C19: when a raw event of a decision does not split into exactly 10
\* fields, that event makes no logger call and no exception, the other
\* events are processed under the call's emission mode, and the decision's
\* variant is returned.
C19_MalformedEventIsolated ==
    (Decided(EagerOps \cup DeferredOps) /\ MalformedOf(engine_result.events) # {}) =>
        /\ outcome = "returned"
        /\ result = engine_result.variant
        /\ LoggedExactly(IF op \in EagerOps THEN WellFormedOf(engine_result.events)
                                           ELSE HoldoutsOf(engine_result.events))
        /\ Cardinality({k \in 1..Len(diagnostics) : diagnostics[k] = SplitWarning})
              = Cardinality(MalformedOf(engine_result.events))

\* a deferred call whose decision has a malformed event before a holdout
\* event: the holdout is logged and the variant returned
C19_Witness ==
    /\ Decided({"get_variant_without_expose"})
    /\ engine_result.events = << MalformedEvent, HoldoutEvent >>
    /\ Len(log_calls) = 1
    /\ log_calls[1].variant = "holdout"
    /\ diagnostics = << SplitWarning >>
    /\ result = engine_result.variant

\* C20: in an identifier-targeted call with identifier_type T and
\* identifier v the context handed to the engine has T = v and the other
\* two of user_id, device_id, canonical_url null.
C20_OtherIdentifiersNulled ==
    op \in IdentifierOps =>
        \A c \in 1..Len(engine_calls) :
            engine_calls[c].method = "make_ctx" =>
                /\ engine_calls[c].ctx[args.identifier_type] = args.identifier
                /\ \A o \in {"user_id", "device_id", "canonical_url"} \ {args.identifier_type} :
                     DictGet(engine_calls[c].ctx, o) = NoneVal

\* C22: when the engine fails get_variant or get_variant_without_expose
\* with a not-found error or a general decider error, the call returns
\* None, emits nothing and raises nothing, and the two kinds are reported
\* by different diagnostics: a warning for not-found, an info record for
\* the general failure.
C22_EngineErrorsDistinguished ==
    (op \in {"get_variant", "get_variant_without_expose"} /\ engine_result.status \in {"not_found", "error"}) =>
        /\ outcome = "returned"
        /\ result = NoneVal
        /\ log_calls = << >>
        /\ Len(diagnostics) = 1
        /\ engine_result.status = "not_found" =>
              diagnostics[1] = << "warn", "FeatureNotFoundException" >>
        /\ engine_result.status = "error" =>
              diagnostics[1] = << "info", "DeciderException" >>

\* get_variant for an experiment the engine does not know
C22_Witness ==
    /\ op = "get_variant"
    /\ engine_result.status = "not_found"
    /\ result = NoneVal
    /\ diagnostics = << << "warn", "FeatureNotFoundException" >> >>
    /\ log_calls = << >>

\* C25: in a well-formed ten-field event, an id, start_ts or stop_ts that
\* cannot be cast to an integer is the integer 1 in the descriptor of the
\* emitted record (a castable one is its integer); the exposure is still
\* emitted and the call returns.
C25_UncastableBecomesOne ==
    Decided(EagerOps) =>
        LET es == WellFormedOf(engine_result.events)
            \* int(input) succeeds on the integer literals of the event pool
            IntOr1(input) == IF input \in DOMAIN IntLiterals THEN IntLiterals[input] ELSE 1
        IN  /\ outcome = "returned"
            /\ Len(log_calls) = Len(es)
            /\ \A i \in 1..Len(es) :
                  /\ log_calls[i].experiment.id = IntOr1(Field(es[i], 2))
                  /\ log_calls[i].experiment.start_ts = IntOr1(Field(es[i], 8))
                  /\ log_calls[i].experiment.stop_ts = IntOr1(Field(es[i], 9))

\* get_variant emitted the exposure of the event with id "x7"
C25_Witness ==
    /\ op = "get_variant"
    /\ engine_result.status = "ok"
    /\ engine_result.events = << UncastableEvent >>
    /\ outcome = "returned"
    /\ Len(log_calls) = 1
    /\ log_calls[1].experiment.id = 1
    /\ log_calls[1].experiment.start_ts = 1
    /\ log_calls[1].experiment.stop_ts = 1
    /\ log_calls[1].experiment.name = "exp_1"

\* C26: the Decider keeps no record of what it has emitted.  Whatever was
\* called before, a get_variant answered with N well-formed events adds N
\* logger calls (so k such calls add k*N), a get_variant_without_expose
\* answered with events of which none is a holdout adds none, and an expose
\* that finds its experiment and returns adds exactly one.
C26_NoEmissionMemory ==
    [][ /\ (op' = "get_variant" /\ engine_result'.status = "ok"
                /\ WellFormedOf(engine_result'.events) = engine_result'.events) =>
              total_logged' = total_logged + Len(engine_result'.events)
        /\ (op' = "get_variant_without_expose" /\ engine_result'.status = "ok"
                /\ HoldoutsOf(engine_result'.events) = << >>) =>
              total_logged' = total_logged
        /\ (op' = "expose" /\ engine_result'.status = "found" /\ outcome' = "returned") =>
              total_logged' = total_logged + 1
      ]_vars

\* the second of two calls that each emitted two exposures is a get_variant
C26_Witness ==
    /\ op = "get_variant"
    /\ n_ops = 2
    /\ engine_result.status = "ok"
    /\ engine_result.events = << RegularEvent, OverrideEvent >>
    /\ Len(log_calls) = 2
    /\ total_logged = 4

\* C27: in an identifier-targeted call the substitution changes only the
\* top-level key named by the event's bucketing field.  Every other key of
\* the record that no kwarg sets, the nested groups user, platform and
\* request among them, holds the value of the context's event view; so when
\* the event's user_id differs from the context's, the record's user_id and
\* its user.id disagree.
C27_SubstitutionIsTopLevelOnly ==
    Decided(IdentifierOps) =>
        \A i \in 1..Len(log_calls) :
            LET ev == EmittedByIdentifierCall[i]
                record == log_calls[i].kwargs
                ctx_fields == to_event_dict(decider_context)
                kwargs == IF "exposure_kwargs" \in DOMAIN args
                             THEN args.exposure_kwargs ELSE EmptyDict
            IN  /\ {"user", "app", "geo", "request", "platform"} \subseteq DOMAIN record
                /\ \A k \in (DOMAIN ctx_fields) \ ({Field(ev, 7)} \cup DOMAIN kwargs) :
                      /\ record[k] = ctx_fields[k]
                      /\ log_calls[i].inputs[k] = ctx_fields[k]
                /\ record["user"].id = decider_context.user_id
                /\ (Field(ev, 7) = "user_id" /\ Field(ev, 6) # decider_context.user_id) =>
                      record["user_id"] # record["user"].id

\* the record of an event bucketed on user_id t2_9999 for the context of
\* user t2_1234: user_id is t2_9999, user.id is t2_1234
C27_Witness ==
    /\ Decided({"get_variant_for_identifier"})
    /\ args.identifier_type = "user_id"
    /\ decider_context = FullContext
    /\ engine_result.events = << RegularEvent >>
    /\ Len(log_calls) = 1
    /\ log_calls[1].kwargs["user_id"] = "t2_9999"
    /\ log_calls[1].kwargs["user"].id = "t2_1234"
    /\ log_calls[1].kwargs["platform"] = Single("device_id", "abc")

\* C28: in get_variant_for_identifier, when exposure_kwargs has a key equal
\* to the bucketing field of an event, the record of that event has the
\* event's bucketing value under that key, at the top level and in inputs,
\* not the kwarg's value: the substitution follows the merge of the kwargs.
C28_SubstitutionAfterKwargs ==
    Decided({"get_variant_for_identifier"}) =>
        \A i \in 1..Len(log_calls) :
            LET ev == EventOfRecord(i)
            IN  Field(ev, 7) \in DOMAIN args.exposure_kwargs =>
                   /\ log_calls[i].kwargs[Field(ev, 7)] = Field(ev, 6)
                   /\ log_calls[i].inputs[Field(ev, 7)] = Field(ev, 6)

\* the kwarg user_id = t2_kw loses to the event's t2_9999
C28_Witness ==
    /\ op = "get_variant_for_identifier"
    /\ engine_result.status = "ok"
    /\ "user_id" \in DOMAIN args.exposure_kwargs
    /\ args.exposure_kwargs["user_id"] = "t2_kw"
    /\ Len(log_calls) >= 1
    /\ Field(EventOfRecord(1), 7) = "user_id"
    /\ log_calls[1].kwargs["user_id"] = "t2_9999"
    /\ log_calls[1].inputs["user_id"] = "t2_9999"
    /\ log_calls[1].kwargs["user_id"] # args.exposure_kwargs["user_id"]

\* an entry the pruning rule keeps: a str key and a value that is None or a
\* bool, int, float or str
ValidEntry(e) == e.ktype = "str" /\ e.vtype \in {"NoneType", "bool", "int", "float", "str"}

Pruned == op = "_prune_extracted_dict"

\* C23: pruning keeps exactly the entries whose key is a string and whose
\* value is null, a bool, an int, a float or a string, each unchanged,
\* removes every other entry with one diagnostic per removed entry, and
\* raises for no input dict.
C23_PruneKeepsValidNeverRaises ==
    Pruned =>
        LET kept == SelectSeq(args.extracted_dict, ValidEntry)
        IN  /\ outcome = "returned"
            /\ result = kept
            /\ Len(diagnostics) = Len(args.extracted_dict) - Len(kept)

\* C24: pruning is stateless and idempotent.  The dict it was given is the
\* same after the call; two calls on equal dicts end alike, with the same
\* result and the same diagnostics; and pruning the pruned dict of the call
\* before returns it unchanged with no diagnostics.
C24_PruneStatelessIdempotent ==
    /\ Pruned => extracted_dict = args.extracted_dict
    /\ \A i, j \in DOMAIN prune_log :
          prune_log[i].input = prune_log[j].input =>
             /\ prune_log[i].outcome = prune_log[j].outcome
             /\ prune_log[i].diagnostics = prune_log[j].diagnostics
             /\ prune_log[i].outcome = "returned" =>
                   prune_log[i].result = prune_log[j].result
    /\ \A i \in DOMAIN prune_log :
          (i > 1 /\ prune_log[i - 1].outcome = "returned"
                 /\ prune_log[i].input = prune_log[i - 1].result) =>
             /\ prune_log[i].outcome = "returned"
             /\ prune_log[i].result = prune_log[i].input
             /\ prune_log[i].diagnostics = << >>

\* the second pruning of a dict with two invalid entries
C24_Witness ==
    /\ Pruned
    /\ Len(prune_log) = 2
    /\ prune_log[1].input = prune_log[2].input
    /\ Len(prune_log[1].diagnostics) = 2
    /\ prune_log[2].diagnostics = prune_log[1].diagnostics
    /\ Len(result) = 1
    /\ extracted_dict = args.extracted_dict

C30_ExtractedFieldsShadowCore ==
    (op \in {"to_dict", "to_event_dict"} /\ args = NoArgs) =>
        LET ef == decider_context.extracted_fields
            CoreAttributes ==
                {"user_id", "country_code", "locale", "user_is_employee", "logged_in",
                 "device_id", "oauth_client_id", "origin_service",
                 "cookie_created_timestamp", "loid_created_timestamp"}
        IN  /\ outcome = "returned"
            /\ \A k \in DOMAIN ef : k \in DOMAIN result /\ result[k] = ef[k]
            /\ op = "to_dict" =>
                  /\ result["other_fields"] = ef
                  /\ \A k \in CoreAttributes \ DOMAIN ef : result[k] = decider_context[k]
            /\ op = "to_event_dict" =>
                  /\ result["user"].id = decider_context.user_id
                  /\ result["platform"] =
                        IF Truthy(decider_context.device_id)
                           THEN Single("device_id", decider_context.device_id)
                           ELSE EmptyDict

\* the event view of a snapshot built with user_id t2_1234 and an extracted
\* user_id t2_ef
C30_Witness ==
    /\ op = "to_event_dict"
    /\ args = NoArgs
    /\ decider_context = ShadowedContext
    /\ decider_context.user_id = "t2_1234"
    /\ result["user_id"] = "t2_ef"
    /\ result["device_id"] = "dev_ef"
    /\ result["user"].id = "t2_1234"
    /\ result["platform"] = Single("device_id", "abc")

====
